---- MODULE Spec2Model ----
(***************************************************************************)
(* RepoCapsule ingestion pipeline.                                         *)
(*                                                                         *)
(* Two entry points are modelled over one set of variables:                *)
(*   - the config-driven run_pipeline(config=...) of                       *)
(*     src/src/repocapsule/pdfio.py, with its serial path and its          *)
(*     parallel path through process_items_parallel;                       *)
(*   - the legacy run_pipeline(source, sinks=...) of                       *)
(*     src/repocapsule/pipeline.py.                                        *)
(* cfg.legacy, chosen in Init, says which entry point the run is.          *)
(*                                                                         *)
(* The main thread is a program counter pc; pool workers are the           *)
(* WorkerRun action; sinks are event logs; every failure the code handles  *)
(* (open/write/close of a sink, a worker, a submission, the source, the    *)
(* legacy conversion) is an injected fault, at most MaxFaults per run.     *)
(* A submit_window of 0 is the unset value (default 4 * max_workers).      *)
(* QC is disabled in the modelled configurations (qc_controller is None).  *)
(* process_one returns its records as a list, as the specification gives   *)
(* iter_records_from_bytes(...) -> [Record].                               *)
(***************************************************************************)
EXTENDS Integers, Sequences, FiniteSets, TLC

\* ------------------------------------------------------------------ bounds
MaxItems == 2
NumSinks == 2
MaxChunks == 2
MaxWorkers == 2
MaxFaults == 2

Items == 1..MaxItems
Sinks == 1..NumSinks

VARIABLES
    cfg,            \* [legacy, max_workers, submit_window, fail_fast]
    pc,             \* position of the thread that called run_pipeline
    open_sinks,     \* List[Sink]: the sinks whose open() returned
    log,            \* per sink: the calls it received, in order
    stats,          \* PipelineStats
    srcState,       \* "iter" | "exhausted" | "raised": source.iter_files()
    nextItem,       \* number of items the source has yielded
    work,           \* the item pulled from `items`, being submitted/processed
                    \* (0: none)
    pending,        \* process_items_parallel: futures not yet drained
    fut,            \* per item: state of its future (serial path: of its
                    \* processor call)
    done,           \* _drain: the `done` set still being iterated
    drainFrom,      \* which loop called _drain: "loop" | "final"
    cur,            \* _write_records: record k of the n of item is next
    exc,            \* an exception is propagating out of the main loop
    completeOrder,  \* items in the order their futures completed
    calls,          \* callbacks of process_items_parallel, in call order
    faults,         \* number of failures injected so far
    \* -- inline QC (core/qc_controller.py)
    qc_cfg,         \* QCConfig as the controller reads it
    tracker,        \* QCSummaryTracker: controller.summary
    qcCalls,        \* records handed to the controller since the last reset
    qcLast,         \* the last call: what the scorer did, what came back
    \* -- run-summary dispatch (core/hooks.py)
    fin_sinks,      \* ctx.runtime.sinks
    primary_jsonl,  \* stats_view.primary_jsonl_path ("" when unset)
    files,          \* per path: the kinds of the lines of the file
    wrote_jsonl,    \* _dispatch_finalizers: the flag of the same name
    finPc,          \* "idle" | "loop" | "fallback" | "done"
    finIdx,         \* `for sink in sinks`: index of the next sink
    \* -- MinHash coefficient cache (accel/python/sievio_accel/qc.py)
    MINHASH_COEFS,  \* _MINHASH_COEFS: the cached (a, b) pairs
    MINHASH_RNG,    \* _MINHASH_RNG: number of values drawn from the stream
    MINHASH_LOCK,   \* _MINHASH_LOCK: the thread holding it (0: free)
    mhPc,           \* per thread: position inside _minhash_coeffs
    n_perm,         \* per thread: the argument of its call
    mhLeft,         \* per thread: iterations left of `for _ in range(...)`
    mhA,            \* per thread: the local `a` of the iteration
    mhRet,          \* per thread: what its last call returned
    mhCalls,        \* calls started so far
    \* -- chunking (chunk.py)
    text,           \* chunk_text: the text argument
    policy,         \* chunk_text: the ChunkPolicy argument
    chunks,         \* the List[Chunk] returned
    chunkPc,        \* "idle" | "call" | "returned"
    \* -- decoding (sievio/core/decode.py)
    data,           \* the bytes argument (of decode_bytes, of the guess)
    decodeOpts,     \* strip_controls and fix_mojibake of the call
    decoded,        \* the DecodedText returned
    guess,          \* what _guess_utf16_endian_from_nuls returned
    \* -- record assembly (records.py, pdfio.py)
    recCall,        \* the call: build_record(...) or extract_pdf_records(...)
    records,        \* the records it returned
    recPc,          \* "idle" | "call" | "returned"
    \* -- plan building (core/builder.py)
    bcfg,           \* cfg: the RepocapsuleConfig being built from
    boverrides,     \* the PipelineOverrides
    benv,           \* what the call meets: entry point, scorer registry
    bprep,          \* results of the _prepare_* helpers so far
    bplan,          \* the PipelinePlan returned
    bpc,            \* position inside build_pipeline_plan / _prepare_qc
    \* -- accelerator loading (sievio/core/accel.py)
    SIEVIO_ACCEL,   \* os.environ["SIEVIO_ACCEL"] ("" when unset)
    ACCEL_CACHE,    \* _ACCEL_CACHE: per cached domain, the module or None
    ACCEL_FAILURES, \* _ACCEL_FAILURES: domains with a recorded failure
    accelLast,      \* the last load_accel call: domain, mode, outcome
    accelCalls,     \* load_accel calls and environment changes so far
    \* -- bytes-handler dispatch (convert.py)
    BYTES_HANDLERS, \* _BYTES_HANDLERS: what each (sniff, handler) pair does
    hIdx,           \* index of the next pair of `for ... in _BYTES_HANDLERS`
    invoked,        \* the handlers invoked for the item, in order
    convResult,     \* who produced the records: a handler or the text path
    \* -- web PDF download (sources_webpdf.py)
    dlCfg,          \* WebPdfListSource: retries, max_pdf_bytes, number of urls
    dlPc,           \* "idle", "iter", "attempt", "returned", "raised" or "done"
    urlIdx,         \* iter_files: index of the url being fetched
    attempt,        \* _download: the local `attempt`
    dl,             \* the _download call for that url: attempts, sleeps, result
    yielded         \* the urls whose FileItem iter_files has yielded

pipeVars == <<cfg, pc, open_sinks, log, stats, srcState, nextItem, work,
              pending, fut, done, drainFrom, cur, exc, completeOrder, calls,
              faults>>
qcVars == <<qc_cfg, tracker, qcCalls, qcLast>>
finVars == <<fin_sinks, primary_jsonl, files, wrote_jsonl, finPc, finIdx>>

mhVars == <<MINHASH_COEFS, MINHASH_RNG, MINHASH_LOCK, mhPc, n_perm, mhLeft,
            mhA, mhRet, mhCalls>>
chunkVars == <<text, policy, chunks, chunkPc>>

decodeVars == <<data, decodeOpts, decoded, guess>>

recVars == <<recCall, records, recPc>>

builderVars == <<bcfg, boverrides, benv, bprep, bplan, bpc>>

accelVars == <<SIEVIO_ACCEL, ACCEL_CACHE, ACCEL_FAILURES, accelLast,
               accelCalls>>

convVars == <<BYTES_HANDLERS, hIdx, invoked, convResult>>

dlVars == <<dlCfg, dlPc, urlIdx, attempt, dl, yielded>>

vars == <<pipeVars, qcVars, finVars, mhVars, chunkVars, decodeVars, recVars,
          builderVars, accelVars, convVars, dlVars>>

\* What a step of one component leaves alone.
besidesPipe == <<qcVars, finVars, mhVars, chunkVars, decodeVars, recVars,
                 builderVars, accelVars, convVars, dlVars>>
besidesQC == <<pipeVars, finVars, mhVars, chunkVars, decodeVars, recVars,
               builderVars, accelVars, convVars, dlVars>>
besidesFin == <<pipeVars, qcVars, mhVars, chunkVars, decodeVars, recVars,
                builderVars, accelVars, convVars, dlVars>>
besidesMinhash == <<pipeVars, qcVars, finVars, chunkVars, decodeVars, recVars,
                    builderVars, accelVars, convVars, dlVars>>
besidesChunk == <<pipeVars, qcVars, finVars, mhVars, decodeVars, recVars,
                  builderVars, accelVars, convVars, dlVars>>
besidesDecode == <<pipeVars, qcVars, finVars, mhVars, chunkVars, recVars,
                   builderVars, accelVars, convVars, dlVars>>
besidesRecords == <<pipeVars, qcVars, finVars, mhVars, chunkVars, decodeVars,
                    builderVars, accelVars, convVars, dlVars>>
besidesBuilder == <<pipeVars, qcVars, finVars, mhVars, chunkVars, decodeVars,
                    recVars, accelVars, convVars, dlVars>>
besidesAccel == <<pipeVars, qcVars, finVars, mhVars, chunkVars, decodeVars,
                  recVars, builderVars, convVars, dlVars>>
besidesConvert == <<pipeVars, qcVars, finVars, mhVars, chunkVars, decodeVars,
                    recVars, builderVars, accelVars, dlVars>>
besidesDownload == <<pipeVars, qcVars, finVars, mhVars, chunkVars, decodeVars,
                     recVars, builderVars, accelVars, convVars>>

\* ----------------------------------------------------------------- helpers
Range(s) == {s[k] : k \in 1..Len(s)}

CanFail == faults < MaxFaults

\* window = cfg.pipeline.submit_window or (4 * cfg.pipeline.max_workers)
SubmitWindow(c) ==
    IF c.submit_window # 0 THEN c.submit_window ELSE 4 * c.max_workers

Max(a, b) == IF a >= b THEN a ELSE b

\* window = max(window, max_workers)
Window == Max(SubmitWindow(cfg), cfg.max_workers)

Parallel == ~cfg.legacy /\ cfg.max_workers > 1

\* make_records_for_file: the records of a file carry chunk_id 1..n in order
ChunkIds(n) == [k \in 1..n |-> k]

\* The content of the source: the first file converts to MaxChunks records,
\* the second to one, the files after them to none.
NChunks(i) == IF i = 1 THEN MaxChunks ELSE IF i = 2 THEN 1 ELSE 0

\* cfg.sinks.sinks, in configuration order
SinkList == [k \in 1..NumSinks |-> k]

\* No record is being written (items are numbered from 1).
NoCur == [item |-> 0, k |-> 0, n |-> 0]

\* ------------------------------------------------------------------- stats
PipelineStats ==
    [files |-> 0, records |-> 0, sink_errors |-> 0, source_errors |-> 0,
     skipped |-> 0]

\* ------------------------------------------------ components not running
\* The run of one component leaves the others as constructed.
NoneValue == [kind |-> "none", val |-> 0]

\* QCSummaryTracker(): the dataclass defaults
QCSummaryTracker ==
    [min_score |-> NoneValue, drop_near_dups |-> FALSE,
     scored |-> 0, kept |-> 0, dropped_low_score |-> 0, dropped_near_dup |-> 0,
     errors |-> 0, candidates_low_score |-> 0, candidates_near_dup |-> 0,
     dup_families |-> 0]

NoCall == [via |-> "none", kind |-> "none", score |-> NoneValue,
           near_dup |-> FALSE, result |-> "none"]

QCIdle ==
    /\ qc_cfg = [enforce_drops |-> FALSE, min_score |-> NoneValue,
                 drop_near_dups |-> FALSE, fail_on_error |-> FALSE]
    /\ tracker = QCSummaryTracker
    /\ qcCalls = 0
    /\ qcLast = NoCall

\* The files a run writes: the primary JSONL and any other output.
Paths == {"primary", "other"}

\* No run has ended: nothing to dispatch, no file written.
FinIdle ==
    /\ fin_sinks = <<>>
    /\ primary_jsonl = ""
    /\ files = [p \in Paths |-> <<>>]
    /\ wrote_jsonl = FALSE
    /\ finPc = "idle"
    /\ finIdx = 0

\* The threads that may call into the coefficient cache.
NumThreads == 2
Threads == 1..NumThreads

\* No value returned yet / a returned list / a raised ValueError.
NoReturn == [kind |-> "none", val |-> <<>>]

\* The module as imported: empty cache, fresh generator, free lock.
MinhashIdle ==
    /\ MINHASH_COEFS = <<>>
    /\ MINHASH_RNG = 0
    /\ MINHASH_LOCK = 0
    /\ mhPc = [t \in Threads |-> "idle"]
    /\ n_perm = [t \in Threads |-> 0]
    /\ mhLeft = [t \in Threads |-> 0]
    /\ mhA = [t \in Threads |-> 0]
    /\ mhRet = [t \in Threads |-> NoReturn]
    /\ mhCalls = 0

\* chunk_text has not been called.
ChunkIdle ==
    /\ text = <<>>
    /\ policy = [mode |-> "auto", target_tokens |-> 0, overlap_tokens |-> 0,
                 min_tokens |-> 0]
    /\ chunks = <<>>
    /\ chunkPc = "idle"

\* No DecodedText yet.
NoDecoded == [text |-> <<>>, encoding |-> "unset", had_replacement |-> FALSE]

\* decode_bytes has not been called.
DecodeIdle ==
    /\ data = <<>>
    /\ decodeOpts = [strip_controls |-> TRUE, fix_mojibake |-> TRUE]
    /\ decoded = NoDecoded
    /\ guess = "unset"

\* Python's None among the str values of a dict.
PyNone == "<None>"

\* Neither build_record nor extract_pdf_records has been called.
RecordsIdle ==
    /\ recCall = [fn |-> "none"]
    /\ records = <<>>
    /\ recPc = "idle"

\* No helper has run / no plan has been returned.
NoPrep ==
    [http_client |-> PyNone, sources |-> <<>>, sinks |-> <<>>,
     bytes_handlers |-> <<>>, file_extractor |-> PyNone, hooks |-> <<>>,
     scorer_for_csv |-> PyNone, post_qc_scorer |-> PyNone]

NoPlan == [spec |-> PyNone, runtime |-> PyNone]

\* A declarative config with every runtime field unset and QC off.
PlainConfig ==
    [http_client |-> PyNone, qc_scorer |-> PyNone,
     file_extractor |-> PyNone, sources |-> <<>>, sinks |-> <<>>,
     bytes_handlers |-> <<>>, extractors |-> <<>>,
     qc_enabled |-> FALSE, qc_mode |-> "OFF", write_csv |-> FALSE,
     source_specs |-> 0, sink_specs |-> 0]

NoOverrides ==
    [http_client |-> PyNone, qc_scorer |-> PyNone,
     file_extractor |-> PyNone, bytes_handlers |-> PyNone]

\* build_pipeline_plan has not been called.
BuilderIdle ==
    /\ bcfg = PlainConfig
    /\ boverrides = NoOverrides
    /\ benv = [entry |-> "none", registry_builds |-> FALSE]
    /\ bprep = NoPrep
    /\ bplan = NoPlan
    /\ bpc = "idle"

\* load_accel has not been called.
NoLoad == [domain |-> "none", mode |-> "none", result |-> "none"]

\* The module as imported: empty caches, SIEVIO_ACCEL unset.
AccelIdle ==
    /\ SIEVIO_ACCEL = ""
    /\ ACCEL_CACHE = <<>>
    /\ ACCEL_FAILURES = {}
    /\ accelLast = NoLoad
    /\ accelCalls = 0

\* make_records_from_bytes has not been called.
NoResult == [by |-> "none", handler |-> 0]

ConvertIdle ==
    /\ BYTES_HANDLERS = <<>>
    /\ hIdx = 0
    /\ invoked = <<>>
    /\ convResult = NoResult

\* _download has made no attempt yet.
NoDownload == [attempts |-> 0, sleeps |-> <<>>, result |-> "none", size |-> 0]

\* No WebPdfListSource is being iterated.
DownloadIdle ==
    /\ dlCfg = [retries |-> 0, max_pdf_bytes |-> 0, urls |-> 0]
    /\ dlPc = "idle"
    /\ urlIdx = 0
    /\ attempt = 0
    /\ dl = NoDownload
    /\ yielded = <<>>

\* ------------------------------------------------------------------- Init
Configs ==
    [legacy : {FALSE}, max_workers : {1},
     submit_window : {0}, fail_fast : BOOLEAN]
    \cup
    [legacy : {FALSE}, max_workers : 2..MaxWorkers,
     submit_window : {0, 1}, fail_fast : BOOLEAN]
    \cup
    [legacy : {TRUE}, max_workers : {1}, submit_window : {0},
     fail_fast : {FALSE}]

Init ==
    /\ cfg \in Configs
    /\ pc = "open_sinks"
    /\ open_sinks = <<>>
    /\ log = [s \in Sinks |-> <<>>]
    /\ stats = PipelineStats
    /\ srcState = "iter"
    /\ nextItem = 0
    /\ work = 0
    /\ pending = {}
    /\ fut = [i \in Items |-> "none"]
    /\ done = {}
    /\ drainFrom = "loop"
    /\ cur = NoCur
    /\ exc = FALSE
    /\ completeOrder = <<>>
    /\ calls = <<>>
    /\ faults = 0
    /\ QCIdle
    /\ FinIdle
    /\ MinhashIdle
    /\ ChunkIdle
    /\ DecodeIdle
    /\ RecordsIdle
    /\ BuilderIdle
    /\ AccelIdle
    /\ ConvertIdle
    /\ DownloadIdle

\* ------------------------------------------------------------------- sinks
Ev(op, i, k) == <<op, i, k>>

\* The sinks of `lst` outside F, in list order.
Without(lst, F) == SelectSeq(lst, LAMBDA s : s \notin F)

\* Every sink of `lst` gets one call: `bad` if it is in F, else `good`.
SinkCalls(lg, lst, F, good, bad) ==
    [s \in Sinks |->
        IF s \in Range(lst)
        THEN Append(lg[s], IF s \in F THEN bad ELSE good)
        ELSE lg[s]]

\* Mutant of SinkWrites: the first write() that raises ends the sink loop.
SinkWritesBreak(lg, opn, F, i, k) ==
    [s \in Sinks |->
        IF s \in Range(opn) /\ \A f \in F : s <= f
        THEN Append(lg[s], Ev(IF s \in F THEN "writefail" ELSE "write", i, k))
        ELSE lg[s]]

\* One record offered to every sink of `opn`, in list order; the sinks of F
\* raise from write().
SinkWrites(lg, opn, F, i, k) ==
    SinkCalls(lg, opn, F, Ev("write", i, k), Ev("writefail", i, k))

\* _write_records: wrote_any is set by a write() that returned; the counter
\* moves only `if wrote_any`.  Each write() that raised adds one sink_error.
WriteStats(st, opn, F) ==
    [st EXCEPT !.sink_errors = @ + Cardinality(F),
               !.records = IF Range(opn) \ F # {} THEN @ + 1 ELSE @]

\* legacy run_pipeline: `stats.records += 1` follows the sink loop
\* unconditionally.
LegacyWriteStats(st, opn, F) ==
    [st EXCEPT !.sink_errors = @ + Cardinality(F),
               !.records = @ + 1]

\* _prepare_sinks: a sink whose open() raises is logged and left out; the
\* helper does not touch the stats.
PrepareSinksStats(st, F) == st

\* legacy run_pipeline: `stats.sink_errors += 1` in the except branch.
LegacyOpenStats(st, F) == [st EXCEPT !.sink_errors = @ + Cardinality(F)]

\* _prepare_sinks(stack, cfg.sinks.sinks, ctx): F are the sinks whose open()
\* raises; the others are appended to open_sinks and their close registered.
PrepareSinks ==
    /\ pc = "open_sinks" /\ ~cfg.legacy
    /\ \E F \in SUBSET Sinks :
        /\ faults + Cardinality(F) <= MaxFaults
        /\ faults' = faults + Cardinality(F)
        /\ open_sinks' = Without(SinkList, F)
        /\ log' = SinkCalls(log, SinkList, F, Ev("open", 0, 0),
                            Ev("openfail", 0, 0))
        /\ stats' = PrepareSinksStats(stats, F)
    /\ pc' = "next"
    /\ UNCHANGED <<cfg, srcState, nextItem, work, pending, fut, done,
                   drainFrom, cur, exc, completeOrder, calls>>
    /\ UNCHANGED besidesPipe

\* legacy run_pipeline: "Open sinks (best effort)"
LegacyOpenSinks ==
    /\ pc = "open_sinks" /\ cfg.legacy
    /\ \E F \in SUBSET Sinks :
        /\ faults + Cardinality(F) <= MaxFaults
        /\ faults' = faults + Cardinality(F)
        /\ open_sinks' = Without(SinkList, F)
        /\ log' = SinkCalls(log, SinkList, F, Ev("open", 0, 0),
                            Ev("openfail", 0, 0))
        /\ stats' = LegacyOpenStats(stats, F)
    /\ pc' = "next"
    /\ UNCHANGED <<cfg, srcState, nextItem, work, pending, fut, done,
                   drainFrom, cur, exc, completeOrder, calls>>
    /\ UNCHANGED besidesPipe

\* ------------------------------------------------------------ main thread
Call(op, i, th) == [op |-> op, item |-> i, thread |-> th]

\* Where an exception leaving the item loop goes first: the `with pool`
\* block of process_items_parallel, or straight to the ExitStack.
RaiseTo == IF Parallel THEN "shutdown" ELSE "close"

\* Mutant of FinalLoop: the final `while pending` loop is missing.
FinalLoopSkipped(pend) == "shutdown"

\* `while pending: _drain(block=True)`, then the `with pool` block ends
FinalLoop(pend) == IF pend = {} THEN "shutdown" ELSE "drain"

\* Where the item loop goes when `items` is over.
LoopEnd == IF Parallel THEN FinalLoop(pending) ELSE "close"

\* _iter_source_items / _work_iter: the next item of source.iter_files(),
\* with _increment_file_stats for each item yielded.
NextItem ==
    /\ pc = "next" /\ ~cfg.legacy
    /\ \/ /\ nextItem < MaxItems
          /\ nextItem' = nextItem + 1
          /\ work' = nextItem + 1
          /\ stats' = [stats EXCEPT !.files = @ + 1]
          /\ pc' = IF Parallel THEN "submit" ELSE "process"
          /\ UNCHANGED <<srcState, exc, faults, drainFrom>>
       \/ /\ srcState' = "exhausted"
          /\ pc' = LoopEnd
          /\ drainFrom' = "final"
          /\ UNCHANGED <<nextItem, work, stats, exc, faults>>
       \/ /\ CanFail
          /\ faults' = faults + 1
          /\ srcState' = "raised"
          /\ stats' = [stats EXCEPT !.source_errors = @ + 1]
          /\ exc' = cfg.fail_fast
          /\ pc' = IF cfg.fail_fast THEN RaiseTo ELSE LoopEnd
          /\ drainFrom' = "final"
          /\ UNCHANGED <<nextItem, work>>
    /\ UNCHANGED <<cfg, open_sinks, log, pending, fut, done, cur,
                   completeOrder, calls>>
    /\ UNCHANGED besidesPipe

\* Mutant of NeedDrain: the window test off by one.
NeedDrainOffByOne(n, w) == n > w

\* `if len(pending) >= window: _drain(block=True)`
NeedDrain(n, w) == n >= w

\* pending.append(pool.submit(process_one, work)), and its except branch
Submit ==
    /\ pc = "submit"
    /\ \/ /\ fut' = [fut EXCEPT ![work] = "queued"]
          /\ pending' = pending \cup {work}
          /\ pc' = IF NeedDrain(Cardinality(pending'), Window)
                   THEN "drain" ELSE "next"
          /\ UNCHANGED <<stats, calls, exc, faults>>
       \/ /\ CanFail
          /\ faults' = faults + 1
          /\ fut' = [fut EXCEPT ![work] = "submitfail"]
          /\ calls' = Append(calls, Call("on_submit_error", work, "main"))
          /\ stats' = [stats EXCEPT !.source_errors = @ + 1]
          /\ exc' = cfg.fail_fast
          /\ pc' = IF cfg.fail_fast THEN "shutdown" ELSE "next"
          /\ UNCHANGED pending
    /\ work' = 0
    /\ UNCHANGED <<cfg, open_sinks, log, srcState, nextItem, done, drainFrom,
                   cur, completeOrder>>
    /\ UNCHANGED besidesPipe

Completed(i) == fut[i] \in {"ok", "err"}

\* Mutant of Drain: the wait returns a single completed future, whichever.
DrainSingle ==
    /\ pc = "drain"
    /\ \E i \in pending :
        /\ Completed(i)
        /\ done' = {i}
        /\ pending' = pending \ {i}
    /\ pc' = "iter"
    /\ UNCHANGED <<cfg, open_sinks, log, stats, srcState, nextItem, work,
                   fut, drainFrom, cur, exc, completeOrder, calls, faults>>
    /\ UNCHANGED besidesPipe

\* wait(pending, timeout=None, return_when=FIRST_COMPLETED): returns once a
\* pending future has completed, with every pending future that has.
Drain ==
    /\ pc = "drain"
    /\ \E i \in pending : Completed(i)
    /\ done' = {i \in pending : Completed(i)}
    /\ pending' = pending \ done'
    /\ pc' = "iter"
    /\ UNCHANGED <<cfg, open_sinks, log, stats, srcState, nextItem, work,
                   fut, drainFrom, cur, exc, completeOrder, calls, faults>>
    /\ UNCHANGED besidesPipe

\* When `for fut in done` is over _drain returns to the loop that called it.
AfterIter(d) ==
    IF d # {} THEN "iter"
    ELSE IF drainFrom = "loop" THEN "next" ELSE FinalLoop(pending)

\* Mutant of OnWorkerError: the `continue` is missing, write_records follows.
OnWorkerErrorThenWrite(cs, i) ==
    Append(Append(cs, Call("on_worker_error", i, "main")),
           Call("write_records", i, "main"))

\* `except Exception as exc: if on_worker_error: on_worker_error(exc)`
OnWorkerError(cs, i) == Append(cs, Call("on_worker_error", i, "main"))

\* Mutant of AfterWorkerError: the `raise` under fail_fast is missing.
AfterWorkerErrorContinue(d) == AfterIter(d)

\* `if fail_fast: raise`, else `continue` with the next future of `done`
AfterWorkerError(d) == IF cfg.fail_fast THEN "shutdown" ELSE AfterIter(d)

\* `for fut in done`: `done` is a set, taken in no particular order.
\* A failed future goes to on_worker_error and, under fail_fast, re-raises;
\* a result goes to write_records.
DrainOne(i) ==
    /\ pc = "iter"
    /\ i \in done
    /\ done' = done \ {i}
    /\ \/ /\ fut[i] = "err"
          /\ calls' = OnWorkerError(calls, i)
          /\ stats' = [stats EXCEPT !.source_errors = @ + 1]
          /\ exc' = cfg.fail_fast
          /\ pc' = AfterWorkerError(done')
          /\ UNCHANGED cur
       \/ /\ fut[i] = "ok"
          /\ calls' = Append(calls, Call("write_records", i, "main"))
          /\ cur' = IF NChunks(i) = 0 THEN NoCur
                    ELSE [item |-> i, k |-> 1, n |-> NChunks(i)]
          /\ pc' = IF NChunks(i) = 0 THEN AfterIter(done') ELSE "write"
          /\ UNCHANGED <<stats, exc>>
    /\ UNCHANGED <<cfg, open_sinks, log, srcState, nextItem, work, pending,
                   fut, drainFrom, completeOrder, faults>>
    /\ UNCHANGED besidesPipe

\* `with executor_cls(...) as pool` exits: shutdown(wait=True) returns when
\* every submitted future has run.
PoolExit ==
    /\ pc = "shutdown"
    /\ \A i \in Items : fut[i] # "queued"
    /\ pc' = "close"
    /\ UNCHANGED <<cfg, open_sinks, log, stats, srcState, nextItem, work,
                   pending, fut, done, drainFrom, cur, exc, completeOrder,
                   calls, faults>>
    /\ UNCHANGED besidesPipe

\* ----------------------------------------------------------------- workers
Queued == {i \in Items : fut[i] = "queued"}

\* The pool runs futures in submission order on max_workers threads: a
\* future can complete when fewer than max_workers unfinished ones precede it.
Running(i) ==
    /\ i \in Queued
    /\ Cardinality({j \in Queued : j < i}) < cfg.max_workers

\* Mutant of WorkerRun: the pool thread hands its result to the sinks itself
\* (a done-callback instead of the drain of the calling thread).
WorkerRunWrites(i) ==
    /\ Running(i)
    /\ fut' = [fut EXCEPT ![i] = "ok"]
    /\ completeOrder' = Append(completeOrder, i)
    /\ calls' = Append(calls, Call("write_records", i, "worker"))
    /\ log' = IF NChunks(i) = 0 THEN log
              ELSE SinkWrites(log, open_sinks, {}, i, 1)
    /\ UNCHANGED <<cfg, pc, open_sinks, stats, srcState, nextItem, work,
                   pending, done, drainFrom, cur, exc, faults>>
    /\ UNCHANGED besidesPipe

\* process_one(work) on a pool thread: _ProcessFileCallable returns
\* (item, records) or raises; the future completes either way.  The worker
\* leaves the sinks, the stats and the callbacks alone.
WorkerRun(i) ==
    /\ Running(i)
    /\ \/ /\ fut' = [fut EXCEPT ![i] = "ok"]
          /\ UNCHANGED faults
       \/ /\ CanFail
          /\ faults' = faults + 1
          /\ fut' = [fut EXCEPT ![i] = "err"]
    /\ completeOrder' = Append(completeOrder, i)
    /\ UNCHANGED <<cfg, pc, open_sinks, log, stats, srcState, nextItem, work,
                   pending, done, drainFrom, cur, exc, calls>>
    /\ UNCHANGED besidesPipe

\* ---------------------------------------------------------- _write_records
\* Mutant of NextChunk: the records of a file leave last first.
NextChunkReversed(c) == ChunkIds(c.n)[c.n - c.k + 1]

\* `for record in recs`: records leave in the order process_one produced them
NextChunk(c) == ChunkIds(c.n)[c.k]

\* After the last record _write_records returns to its caller: the `for fut
\* in done` loop of _drain, or the serial item loop.
AfterWrite == IF Parallel THEN AfterIter(done) ELSE "next"

\* One iteration of `for record in recs`: the record is offered to every
\* open sink; F are the sinks whose write() raises.
WriteRecords ==
    /\ pc = "write" /\ ~cfg.legacy
    /\ \E F \in SUBSET Range(open_sinks) :
        /\ faults + Cardinality(F) <= MaxFaults
        /\ faults' = faults + Cardinality(F)
        /\ log' = SinkWrites(log, open_sinks, F, cur.item, NextChunk(cur))
        /\ stats' = WriteStats(stats, open_sinks, F)
    /\ cur' = IF cur.k = cur.n THEN NoCur ELSE [cur EXCEPT !.k = @ + 1]
    /\ pc' = IF cur.k = cur.n THEN AfterWrite ELSE "write"
    /\ UNCHANGED <<cfg, open_sinks, srcState, nextItem, work, pending, fut,
                   done, drainFrom, exc, completeOrder, calls>>
    /\ UNCHANGED besidesPipe

\* _process_serial(item, ctx): processor(...) then _write_records, with the
\* except branch counting a source error and re-raising under fail_fast.
ProcessSerial ==
    /\ pc = "process" /\ ~cfg.legacy
    /\ \/ /\ cur' = IF NChunks(work) = 0 THEN NoCur
                    ELSE [item |-> work, k |-> 1, n |-> NChunks(work)]
          /\ fut' = [fut EXCEPT ![work] = "ok"]
          /\ pc' = IF NChunks(work) = 0 THEN "next" ELSE "write"
          /\ UNCHANGED <<stats, exc, faults>>
       \/ /\ CanFail
          /\ faults' = faults + 1
          /\ fut' = [fut EXCEPT ![work] = "err"]
          /\ stats' = [stats EXCEPT !.source_errors = @ + 1]
          /\ exc' = cfg.fail_fast
          /\ pc' = IF cfg.fail_fast THEN "close" ELSE "next"
          /\ UNCHANGED cur
    /\ work' = 0
    /\ UNCHANGED <<cfg, open_sinks, log, srcState, nextItem, pending, done,
                   drainFrom, completeOrder, calls>>
    /\ UNCHANGED besidesPipe

\* ------------------------------------------------------------------ close
\* How run_pipeline ends: by an exception or by its return.
Exit(e) == IF e THEN "raised" ELSE "returned"

\* Mutant of CloseSinks: the sinks are closed on the normal path only.
CloseSinksNoUnwind ==
    /\ pc = "close" /\ ~cfg.legacy
    /\ \E F \in SUBSET Range(open_sinks) :
        /\ faults + Cardinality(F) <= MaxFaults
        /\ faults' = faults + Cardinality(F)
        /\ log' = IF exc THEN log
                  ELSE SinkCalls(log, open_sinks, F, Ev("close", 0, 0),
                                 Ev("closefail", 0, 0))
        /\ exc' = (exc \/ F # {})
    /\ pc' = Exit(exc')
    /\ UNCHANGED <<cfg, open_sinks, stats, srcState, nextItem, work, pending,
                   fut, done, drainFrom, cur, completeOrder, calls>>
    /\ UNCHANGED besidesPipe

\* ExitStack.__exit__ runs every registered close callback; F are the ones
\* that raise.  One that raises does not stop the others, its exception
\* leaves the `with` block once all have run, and the stats are untouched.
CloseSinks ==
    /\ pc = "close" /\ ~cfg.legacy
    /\ \E F \in SUBSET Range(open_sinks) :
        /\ faults + Cardinality(F) <= MaxFaults
        /\ faults' = faults + Cardinality(F)
        /\ log' = SinkCalls(log, open_sinks, F, Ev("close", 0, 0),
                            Ev("closefail", 0, 0))
        /\ exc' = (exc \/ F # {})
    /\ pc' = Exit(exc')
    /\ UNCHANGED <<cfg, open_sinks, stats, srcState, nextItem, work, pending,
                   fut, done, drainFrom, cur, completeOrder, calls>>
    /\ UNCHANGED besidesPipe

\* ----------------------------------------------------- legacy run_pipeline
\* `for item in source.iter_files()`: an item is skipped by the hidden /
\* extension / size filters or counted in files; an exception of the source
\* is not caught and reaches the `finally`.
LegacyNext ==
    /\ pc = "next" /\ cfg.legacy
    /\ \/ /\ nextItem < MaxItems
          /\ nextItem' = nextItem + 1
          /\ \/ /\ stats' = [stats EXCEPT !.skipped = @ + 1]
                /\ UNCHANGED <<pc, work>>
             \/ /\ stats' = [stats EXCEPT !.files = @ + 1]
                /\ work' = nextItem + 1
                /\ pc' = "process"
          /\ UNCHANGED <<srcState, exc, faults>>
       \/ /\ srcState' = "exhausted"
          /\ pc' = "close"
          /\ UNCHANGED <<nextItem, work, stats, exc, faults>>
       \/ /\ CanFail
          /\ faults' = faults + 1
          /\ srcState' = "raised"
          /\ exc' = TRUE
          /\ pc' = "close"
          /\ UNCHANGED <<nextItem, work, stats>>
    /\ UNCHANGED <<cfg, open_sinks, log, pending, fut, done, drainFrom, cur,
                   completeOrder, calls>>
    /\ UNCHANGED besidesPipe

\* recs = make_records_from_bytes(...): a failure is logged and the item
\* skipped; `if not recs: continue`.
LegacyConvert ==
    /\ pc = "process" /\ cfg.legacy
    /\ \/ /\ cur' = IF NChunks(work) = 0 THEN NoCur
                    ELSE [item |-> work, k |-> 1, n |-> NChunks(work)]
          /\ pc' = IF NChunks(work) = 0 THEN "next" ELSE "write"
          /\ UNCHANGED faults
       \/ /\ CanFail
          /\ faults' = faults + 1
          /\ pc' = "next"
          /\ UNCHANGED cur
    /\ work' = 0
    /\ UNCHANGED <<cfg, open_sinks, log, stats, srcState, nextItem, pending,
                   fut, done, drainFrom, exc, completeOrder, calls>>
    /\ UNCHANGED besidesPipe

\* One iteration of `for r in recs`: `for s in open_sinks: s.write(r)`
LegacyWrite ==
    /\ pc = "write" /\ cfg.legacy
    /\ \E F \in SUBSET Range(open_sinks) :
        /\ faults + Cardinality(F) <= MaxFaults
        /\ faults' = faults + Cardinality(F)
        /\ log' = SinkWrites(log, open_sinks, F, cur.item, NextChunk(cur))
        /\ stats' = LegacyWriteStats(stats, open_sinks, F)
    /\ cur' = IF cur.k = cur.n THEN NoCur ELSE [cur EXCEPT !.k = @ + 1]
    /\ pc' = IF cur.k = cur.n THEN "next" ELSE "write"
    /\ UNCHANGED <<cfg, open_sinks, srcState, nextItem, work, pending, fut,
                   done, drainFrom, exc, completeOrder, calls>>
    /\ UNCHANGED besidesPipe

\* `finally: for s in open_sinks: s.close()`, each failure caught, logged
\* and counted in sink_errors.
LegacyClose ==
    /\ pc = "close" /\ cfg.legacy
    /\ \E F \in SUBSET Range(open_sinks) :
        /\ faults + Cardinality(F) <= MaxFaults
        /\ faults' = faults + Cardinality(F)
        /\ log' = SinkCalls(log, open_sinks, F, Ev("close", 0, 0),
                            Ev("closefail", 0, 0))
        /\ stats' = [stats EXCEPT !.sink_errors = @ + Cardinality(F)]
    /\ pc' = Exit(exc)
    /\ UNCHANGED <<cfg, open_sinks, srcState, nextItem, work, pending, fut,
                   done, drainFrom, cur, exc, completeOrder, calls>>
    /\ UNCHANGED besidesPipe

\* ------------------------------------------------------------------- Spec
Next ==
    \/ PrepareSinks
    \/ NextItem
    \/ Submit
    \/ Drain
    \/ \E i \in Items : DrainOne(i)
    \/ PoolExit
    \/ \E i \in Items : WorkerRun(i)
    \/ WriteRecords
    \/ ProcessSerial
    \/ CloseSinks
    \/ LegacyOpenSinks
    \/ LegacyNext
    \/ LegacyConvert
    \/ LegacyWrite
    \/ LegacyClose

Spec == Init /\ [][Next]_vars

\* ================================================================= claims
\* Position of x in the sequence s (0 when absent).
Pos(s, x) == IF \E k \in 1..Len(s) : s[k] = x
             THEN CHOOSE k \in 1..Len(s) : s[k] = x ELSE 0

\* Number of calls of callback op for item i.
NCalls(op, i) ==
    Cardinality({k \in 1..Len(calls) : calls[k].op = op /\ calls[k].item = i})

\* Position in `calls` of the write_records call for item i (0 when absent).
WrittenPos(i) ==
    IF \E k \in 1..Len(calls) : calls[k].op = "write_records" /\ calls[k].item = i
    THEN CHOOSE k \in 1..Len(calls) :
             calls[k].op = "write_records" /\ calls[k].item = i
    ELSE 0

\* ---------------------------------------------------------------------- C1
\* C1: in process_items_parallel the number of submitted futures not yet
\* drained never exceeds the clamped window, and the producer is never at
\* the point of pulling or submitting an item while pending has reached the
\* window: it is blocked in the drain until a future has completed.
C1_Backpressure ==
    Parallel =>
        /\ Cardinality(pending) <= Window
        /\ pc \in {"next", "submit"} => Cardinality(pending) < Window

\* The producer blocked at a full window with nothing completed yet.
C1_Witness ==
    /\ Parallel
    /\ pc = "drain" /\ drainFrom = "loop"
    /\ Cardinality(pending) = Window
    /\ \A i \in pending : ~Completed(i)

AtL(lg, ops) == {k \in 1..Len(lg) : lg[k][1] \in ops}
At(s, ops) == AtL(log[s], ops)

OpenOk(s) == At(s, {"open"}) # {}
OpenRaised(s) == At(s, {"openfail"}) # {}
CloseCalls == {"close", "closefail"}
WriteCalls == {"write", "writefail"}
Exited == pc \in {"returned", "raised"}

\* C3: in run_pipeline (both entry points) a sink whose open() succeeded
\* gets exactly one close() call, placed after its last write(), on every
\* exit path; a sink whose open() raised gets no write() and no close().
C3_SinkLifecycle ==
    \A s \in Sinks :
        /\ Cardinality(At(s, {"open", "openfail"})) <= 1
        /\ OpenRaised(s) => At(s, WriteCalls \cup CloseCalls) = {}
        /\ Cardinality(At(s, CloseCalls)) <= 1
        /\ \A k \in At(s, CloseCalls) : k = Len(log[s])
        /\ \A k \in At(s, WriteCalls) : log[s][1][1] = "open"
        /\ (Exited /\ OpenOk(s)) => Cardinality(At(s, CloseCalls)) = 1

\* run_pipeline left by an exception, with a sink that was written to and
\* then closed, next to a sink whose open() raised.
C3_Witness ==
    /\ pc = "raised"
    /\ srcState = "raised" \/ \E i \in Items : fut[i] = "err"
    /\ \E s \in Sinks :
        /\ At(s, {"write"}) # {}
        /\ At(s, CloseCalls) = {Len(log[s])}
    /\ \E s \in Sinks : OpenRaised(s)

\* ---------------------------------------------------------------------- C4
\* The failure of item i has reached the main loop: its processor raised
\* (serial path) or its failed future was taken out of `done`.
Surfaced(i) == fut[i] = "err" /\ i \notin pending \cup done

\* A source or worker error has surfaced in a fail_fast config-driven run.
FailFastError ==
    /\ ~cfg.legacy /\ cfg.fail_fast
    /\ srcState = "raised" \/ \E i \in Items : Surfaced(i)

C4_State ==
    FailFastError =>
        /\ exc
        /\ stats.source_errors >= 1
        /\ pc \in {"shutdown", "close", "raised"}
        /\ pc = "raised" =>
             \A s \in Sinks : OpenOk(s) => At(s, CloseCalls) # {}

C4_Step ==
    FailFastError =>
        /\ calls' = calls
        /\ \A s \in Sinks :
             Cardinality(AtL(log'[s], WriteCalls)) =
             Cardinality(AtL(log[s], WriteCalls))

\* C4: with fail_fast=True, once a source or worker error has surfaced in
\* the main loop of the config-driven run_pipeline the run is aborting:
\* source_errors >= 1, no callback and no sink.write() happens any more
\* (results still in flight are discarded), and every opened sink has been
\* closed when the exception leaves run_pipeline.
C4_FailFastAbort == [](C4_State) /\ [][C4_Step]_vars

\* A worker error aborted a parallel run: the exception has left
\* run_pipeline, the result of another item was discarded unwritten, and a
\* sink that had opened was closed.
C4_Witness ==
    /\ Parallel /\ cfg.fail_fast /\ pc = "raised"
    /\ \E i, j \in Items :
        /\ Surfaced(i)
        /\ fut[j] = "ok" /\ WrittenPos(j) = 0
    /\ \E s \in Sinks : OpenOk(s) /\ At(s, {"close"}) # {}

\* ---------------------------------------------------------------------- C5
Handled(i) == fut[i] \in {"ok", "err", "submitfail"} /\ i \notin pending \cup done

\* The two loops of process_items_parallel are over.
LoopsOver == pc \in {"shutdown", "close", "returned", "raised"}

\* C5: with fail_fast=False process_items_parallel isolates failures per
\* item: a worker exception gives one on_worker_error call and no
\* write_records call for the item, a submit exception one on_submit_error
\* call and no write_records call, every other item exactly one
\* write_records call; no exception leaves the loops and they run to the
\* end of `items`, leaving no future pending.
C5_Isolation ==
    (Parallel /\ ~cfg.fail_fast) =>
        /\ \A i \in Items :
            /\ NCalls("on_worker_error", i) =
                 (IF fut[i] = "err" /\ Handled(i) THEN 1 ELSE 0)
            /\ NCalls("on_submit_error", i) =
                 (IF fut[i] = "submitfail" THEN 1 ELSE 0)
            /\ NCalls("write_records", i) =
                 (IF fut[i] = "ok" /\ Handled(i) THEN 1 ELSE 0)
        /\ pc \in {"shutdown", "close"} => ~exc
        /\ LoopsOver =>
            /\ srcState # "iter"
            /\ pending = {} /\ done = {}
            /\ \A i \in 1..nextItem : Handled(i)

\* A finished run in which one item failed in its worker and another one
\* was written.
C5_Witness ==
    /\ Parallel /\ ~cfg.fail_fast /\ pc = "returned"
    /\ \E i, j \in Items :
        /\ fut[i] = "err" /\ NCalls("on_worker_error", i) = 1
        /\ NCalls("write_records", j) = 1

\* ---------------------------------------------------------------------- C6
\* The write() calls of sink s for the records of item i, in call order.
ItemWrites(s, i) ==
    SelectSeq(log[s], LAMBDA e : e[1] \in WriteCalls /\ e[2] = i)

\* C6: for every file and every sink, the records of the file reach the
\* sink in the order process_one produced them: the k-th write() call for
\* the file carries chunk_id k, on every path and under every interleaving.
C6_ChunkOrder ==
    \A s \in Sinks : \A i \in Items :
        LET w == ItemWrites(s, i) IN \A k \in 1..Len(w) : w[k][3] = k

\* A parallel run in which a sink accepted two records of one file and a
\* record of another file.
C6_Witness ==
    /\ Parallel
    /\ \E s \in Sinks : \E i, j \in Items :
        /\ i # j
        /\ Ev("write", i, 1) \in Range(log[s])
        /\ Ev("write", i, 2) \in Range(log[s])
        /\ Ev("write", j, 1) \in Range(log[s])

\* ---------------------------------------------------------------------- C7
\* The write() calls of sink s, in call order.
SinkWriteCalls(s) == SelectSeq(log[s], LAMBDA e : e[1] \in WriteCalls)

C7_State ==
    Parallel =>
        /\ \A k \in 1..Len(calls) : calls[k].thread = "main"
        /\ \A s \in Sinks :
             LET w == SinkWriteCalls(s) IN
             \A k \in 2..Len(w) :
                 w[k][2] # w[k - 1][2] =>
                     \A j \in 1..(k - 1) : w[j][2] # w[k][2]

\* A step in which a pool thread completes a future.
WorkerStep == \E i \in Items : fut[i] = "queued" /\ fut'[i] \in {"ok", "err"}

C7_Step == (Parallel /\ WorkerStep) => UNCHANGED <<stats, log, calls, open_sinks>>

\* C7: in the parallel path write_records, on_worker_error, on_submit_error
\* and the stats increments run on the thread that called
\* process_items_parallel, never on a pool thread: a step of a pool thread
\* leaves the stats, the sinks and the callbacks untouched, and the sink
\* writes of two write_records calls never interleave (in every sink the
\* write() calls for one file are contiguous).
C7_SingleConsumer == [](C7_State) /\ [][C7_Step]_vars

\* The calling thread is inside _write_records, between two records of a
\* file, while a pool thread is still running another item.
C7_Witness ==
    /\ Parallel
    /\ pc = "write" /\ cur.k > 1
    /\ \E i \in Items : Running(i)

\* ---------------------------------------------------------------------- C8
\* The records some sink accepted: a write() of theirs returned.
Accepted ==
    {r \in Items \X (1..MaxChunks) :
        \E s \in Sinks : Ev("write", r[1], r[2]) \in Range(log[s])}

\* C8 (as claimed): in both entry points stats.records counts exactly the
\* records for which the write() of at least one open sink returned; it
\* stays 0 when no sink is open or every write fails.
C8_RecordsIffAccepted == stats.records = Cardinality(Accepted)

\* ---------------------------------------------------------------------- C9
\* The sinks whose last call in lg is a write() that raised.
JustFailed(lg) ==
    {s \in Sinks : lg[s] # <<>> /\ lg[s][Len(lg[s])][1] = "writefail"}

C9_Step ==
    (pc = "write" /\ log' # log) =>
        /\ \A s \in Range(open_sinks) :
            /\ Len(log'[s]) = Len(log[s]) + 1
            /\ log'[s][Len(log'[s])] \in
                 {Ev("write", cur.item, cur.k), Ev("writefail", cur.item, cur.k)}
        /\ \A s \in Sinks \ Range(open_sinks) : log'[s] = log[s]
        /\ stats'.sink_errors =
             stats.sink_errors + Cardinality(JustFailed(log') \cap Range(open_sinks))
        /\ open_sinks' = open_sinks
        /\ exc' = FALSE
        /\ pc' \notin {"close", "raised"} \/ (~Parallel /\ pc' = "close")

\* C9: in run_pipeline (both entry points) a write() that raises adds
\* exactly one to sink_errors, the same record is still offered to every
\* other open sink, the failing sink stays in the open set for the records
\* that follow, and the run is not aborted.
C9_WriteFailureIsolated == [][C9_Step]_vars

\* A sink whose write() of a record raised was offered the next record and
\* took it, while the other sink took both; the error was counted once and
\* the run returned.
C9_Witness ==
    /\ pc = "returned"
    /\ stats.sink_errors = 1
    /\ \E s, u \in Sinks : \E i \in Items :
        /\ s # u
        /\ Ev("writefail", i, 1) \in Range(log[s])
        /\ Ev("write", i, 2) \in Range(log[s])
        /\ Ev("write", i, 1) \in Range(log[u])
        /\ Ev("write", i, 2) \in Range(log[u])

\* --------------------------------------------------------------------- C10
\* C10 (as claimed): in both entry points each sink whose open() raises is
\* left out of the open set and adds exactly one to stats.sink_errors.
C10_OpenFailureCounted ==
    (pc = "next" /\ nextItem = 0) =>
        /\ \A s \in Sinks : OpenRaised(s) => s \notin Range(open_sinks)
        /\ stats.sink_errors = Cardinality({s \in Sinks : OpenRaised(s)})

\* --------------------------------------------------------------------- C11
\* The item loop itself ended by an exception: the legacy source raised, or
\* a source, worker or submit error was re-raised under fail_fast.
LoopRaised ==
    \/ cfg.legacy /\ srcState = "raised"
    \/ /\ ~cfg.legacy /\ cfg.fail_fast
       /\ \/ srcState = "raised"
          \/ \E i \in Items : Surfaced(i) \/ fut[i] = "submitfail"

\* Number of calls `op` over all sinks.
NSinkCalls(op) ==
    Cardinality({c \in Sinks \X (1..(2 + MaxItems * MaxChunks)) :
                    c[2] <= Len(log[c[1]]) /\ log[c[1]][c[2]][1] = op})

\* C11 (as claimed): in both entry points a close() that raises is counted
\* in stats.sink_errors, the other open sinks are still closed, and the run
\* is not aborted by it: run_pipeline returns its stats.
C11_CloseFailureCounted ==
    Exited =>
        /\ \A s \in Sinks : OpenOk(s) => At(s, CloseCalls) # {}
        /\ stats.sink_errors >= NSinkCalls("writefail") + NSinkCalls("closefail")
        /\ ~LoopRaised => pc = "returned"

\* ======================================================== inline QC model
\* core/qc_controller.py: QCSummaryTracker, InlineQCController and
\* InlineQCHook.  Scores and min_score are small integers; a score is None,
\* a number, or a value float() rejects.
MaxScore == 1
MaxRecords == 2

Num(v) == [kind |-> "num", val |-> v]
NotANumber == [kind |-> "bad", val |-> 0]

\* _prepare_qc: enforce_drops = (mode == INLINE); ADVISORY otherwise.
QCConfigs ==
    [enforce_drops : BOOLEAN,
     min_score : {NoneValue} \cup {Num(v) : v \in 1..MaxScore},
     drop_near_dups : BOOLEAN,
     fail_on_error : BOOLEAN]

\* What scorer.score_record(record) does: it raises, returns something that
\* is not a mapping, or returns a QC row.
QCRows ==
    [kind : {"row"},
     score : {NoneValue, NotANumber} \cup {Num(v) : v \in 0..MaxScore},
     near_dup : BOOLEAN,
     family : BOOLEAN]
ScorerOutcomes ==
    QCRows \cup
    [kind : {"raise", "malformed"}, score : {NoneValue}, near_dup : {FALSE},
     family : {FALSE}]

\* InlineQCController.reset: a fresh tracker carrying the configuration.
NewTracker(c) ==
    [QCSummaryTracker EXCEPT !.min_score = c.min_score,
                             !.drop_near_dups = c.drop_near_dups]

\* Mutant of IsLowScore: the comparison lets the threshold itself fail.
IsLowScoreInclusive(tr, row) ==
    /\ tr.min_score.kind # "none"
    /\ row.score.kind = "num"
    /\ row.score.val <= tr.min_score.val

\* QCSummaryTracker._is_low_score
IsLowScore(tr, row) ==
    IF tr.min_score.kind = "none" THEN FALSE
    ELSE IF row.score.kind = "none" THEN FALSE
    ELSE IF row.score.kind = "bad" THEN FALSE
    ELSE row.score.val < tr.min_score.val

\* Mutant of Gate: the near-duplicate rule is tested first.
GateNearDupFirst(tr, low, near, apply_gates) ==
    IF apply_gates /\ tr.drop_near_dups /\ near THEN "near_dup"
    ELSE IF apply_gates /\ low THEN "low_score"
    ELSE "keep"

\* Mutant of Gate: the gates are applied whatever apply_gates says.
GateAlways(tr, low, near, apply_gates) ==
    IF low THEN "low_score"
    ELSE IF tr.drop_near_dups /\ near THEN "near_dup"
    ELSE "keep"

\* QCSummaryTracker.observe: the if / elif that decides `keep`.
Gate(tr, low, near, apply_gates) ==
    IF apply_gates /\ low THEN "low_score"
    ELSE IF apply_gates /\ tr.drop_near_dups /\ near THEN "near_dup"
    ELSE "keep"

\* QCSummaryTracker.observe(qc_result, apply_gates) on a QC row.
Observe(tr, row, apply_gates) ==
    LET low == IsLowScore(tr, row)
        near == row.near_dup
        g == Gate(tr, low, near, apply_gates)
    IN  [tracker |->
            [tr EXCEPT
                !.scored = @ + 1,
                !.dup_families = IF row.family THEN @ + 1 ELSE @,
                !.candidates_low_score = IF low THEN @ + 1 ELSE @,
                !.candidates_near_dup = IF near THEN @ + 1 ELSE @,
                !.dropped_low_score = IF g = "low_score" THEN @ + 1 ELSE @,
                !.dropped_near_dup = IF g = "near_dup" THEN @ + 1 ELSE @,
                !.kept = IF g = "keep" THEN @ + 1 ELSE @],
         keep |-> g = "keep"]

\* observe on a result that is not a mapping: `self.scored += 1`, then
\* qc_result.get raises.
ObserveMalformed(tr) == [tr EXCEPT !.scored = @ + 1]

\* QCSummaryTracker.record_error
RecordError(tr) == [tr EXCEPT !.errors = @ + 1]

\* The except branches of process_record after record_error(): re-raise
\* under fail_on_error, else drop (enforce_drops) or keep marked qc_error.
OnError(c, tr) ==
    [tracker |-> RecordError(tr),
     result |-> IF c.fail_on_error THEN "raise"
                ELSE IF c.enforce_drops THEN "None" ELSE "record_qc_error"]

\* InlineQCController.process_record(record).  mergeFail: _merge_qc_meta_impl
\* raises.  The result is the record, the record marked qc_error, None, or
\* an exception.
ProcessRecord(c, tr, out, mergeFail) ==
    IF out.kind = "raise" THEN OnError(c, tr)
    ELSE IF out.kind = "malformed" THEN OnError(c, ObserveMalformed(tr))
    ELSE LET o == Observe(tr, out, c.enforce_drops) IN
         IF mergeFail THEN OnError(c, o.tracker)
         ELSE [tracker |-> o.tracker,
               result |-> IF o.keep THEN "record" ELSE "None"]

\* Mutant of OnRecord: the hook lets the exception of the controller through.
OnRecordPropagates(c, tr, out, mergeFail) == ProcessRecord(c, tr, out, mergeFail)

\* InlineQCHook.on_record(record): process_record inside try / except
\* Exception, which counts one more error and drops or marks the record.
OnRecord(c, tr, out, mergeFail) ==
    LET r == ProcessRecord(c, tr, out, mergeFail) IN
    IF r.result = "raise"
    THEN [tracker |-> RecordError(r.tracker),
          result |-> IF c.enforce_drops THEN "None" ELSE "record_qc_error"]
    ELSE r

\* What a call is remembered by.
CallKind(out, mergeFail) ==
    IF out.kind = "row" /\ mergeFail THEN "mergefail" ELSE out.kind

Called(via, out, mergeFail, r) ==
    [via |-> via, kind |-> CallKind(out, mergeFail), score |-> out.score,
     near_dup |-> out.near_dup, result |-> r.result]

QCInit ==
    /\ qc_cfg \in QCConfigs
    /\ tracker = NewTracker(qc_cfg)
    /\ qcCalls = 0
    /\ qcLast = NoCall

\* InlineQCController.reset(stats) with the stats of a RunContext: a new
\* tracker replaces controller.summary and is assigned to stats.qc.
Reset(c) == [tracker |-> NewTracker(c), stats_qc |-> "summary"]

\* What on_run_start leaves behind: no record seen, and `result` names the
\* object ctx.stats.qc now refers to.
RunStarted(r) ==
    [via |-> "on_run_start", kind |-> "none", score |-> NoneValue,
     near_dup |-> FALSE, result |-> r.stats_qc]

\* Mutant of HookOnRunStart: the tracker of the earlier run is kept.
HookOnRunStartKeeps ==
    /\ qcCalls > 0
    /\ tracker' = tracker
    /\ qcCalls' = 0
    /\ qcLast' = RunStarted(Reset(qc_cfg))
    /\ UNCHANGED qc_cfg
    /\ UNCHANGED besidesQC

\* InlineQCHook.on_run_start(ctx): controller.reset(ctx.stats)
HookOnRunStart ==
    /\ qcCalls > 0
    /\ tracker' = Reset(qc_cfg).tracker
    /\ qcCalls' = 0
    /\ qcLast' = RunStarted(Reset(qc_cfg))
    /\ UNCHANGED qc_cfg
    /\ UNCHANGED besidesQC

\* The pipeline hands a record to the QC hook.
HookOnRecord ==
    /\ qcCalls < MaxRecords
    /\ \E out \in ScorerOutcomes, mergeFail \in BOOLEAN :
        LET r == OnRecord(qc_cfg, tracker, out, mergeFail) IN
        /\ tracker' = r.tracker
        /\ qcLast' = Called("hook", out, mergeFail, r)
    /\ qcCalls' = qcCalls + 1
    /\ UNCHANGED qc_cfg
    /\ UNCHANGED besidesQC

\* A caller uses the controller without the hook (accept / process_record).
ControllerProcessRecord ==
    /\ qcCalls < MaxRecords
    /\ \E out \in ScorerOutcomes, mergeFail \in BOOLEAN :
        LET r == ProcessRecord(qc_cfg, tracker, out, mergeFail) IN
        /\ tracker' = r.tracker
        /\ qcLast' = Called("controller", out, mergeFail, r)
    /\ qcCalls' = qcCalls + 1
    /\ UNCHANGED qc_cfg
    /\ UNCHANGED besidesQC

\* The pipeline as constructed and never started.
PipeIdle ==
    /\ cfg = [legacy |-> FALSE, max_workers |-> 1, submit_window |-> 0,
              fail_fast |-> FALSE]
    /\ pc = "open_sinks"
    /\ open_sinks = <<>>
    /\ log = [s \in Sinks |-> <<>>]
    /\ stats = PipelineStats
    /\ srcState = "iter"
    /\ nextItem = 0
    /\ work = 0
    /\ pending = {}
    /\ fut = [i \in Items |-> "none"]
    /\ done = {}
    /\ drainFrom = "loop"
    /\ cur = NoCur
    /\ exc = FALSE
    /\ completeOrder = <<>>
    /\ calls = <<>>
    /\ faults = 0

InitQC ==
    /\ PipeIdle
    /\ QCInit
    /\ FinIdle
    /\ MinhashIdle
    /\ ChunkIdle
    /\ DecodeIdle
    /\ RecordsIdle
    /\ BuilderIdle
    /\ AccelIdle
    /\ ConvertIdle
    /\ DownloadIdle

NextQC ==
    \/ HookOnRunStart
    \/ HookOnRecord
    \/ ControllerProcessRecord

SpecQC == InitQC /\ [][NextQC]_vars

\* ------------------------------------------------------------- QC claims
\* A step that is one call of the hook or of the controller.
QCCallStep == qcCalls' = qcCalls + 1

\* The claims' own reading of the two drop rules, on the call just made.
ClaimLowScore(call) ==
    /\ qc_cfg.min_score.kind = "num"
    /\ call.score.kind = "num"
    /\ call.score.val < qc_cfg.min_score.val
ClaimNearDup(call) == qc_cfg.drop_near_dups /\ call.near_dup

\* --------------------------------------------------------------------- C12
C12_Step ==
    (QCCallStep /\ qc_cfg.enforce_drops /\ qcLast'.kind = "row") =>
        LET low == ClaimLowScore(qcLast')
            near == ClaimNearDup(qcLast')
        IN  /\ qcLast'.result = (IF low \/ near THEN "None" ELSE "record")
            /\ tracker'.dropped_low_score =
                 tracker.dropped_low_score + (IF low THEN 1 ELSE 0)
            /\ tracker'.dropped_near_dup =
                 tracker.dropped_near_dup + (IF ~low /\ near THEN 1 ELSE 0)
            /\ tracker'.kept =
                 tracker.kept + (IF low \/ near THEN 0 ELSE 1)
            /\ (/\ qc_cfg.min_score.kind = "none" /\ qc_cfg.drop_near_dups
                /\ qcCalls = 1
                /\ qcLast.kind = "row" /\ ~qcLast.near_dup
                /\ qcLast'.near_dup)
               => /\ qcLast.result = "record"
                  /\ qcLast'.result = "None"
                  /\ tracker'.dropped_near_dup = 1

C13_AdvisoryNeverDrops ==
    ~qc_cfg.enforce_drops =>
        /\ tracker.dropped_low_score = 0
        /\ tracker.dropped_near_dup = 0
        /\ qcLast.via = "hook" =>
            qcLast.result =
                (IF qcLast.kind = "row" THEN "record" ELSE "record_qc_error")

\* Advisory run: a low-score record was kept earlier, and the scorer then
\* raised under fail_on_error; the record came back marked qc_error.
C13_Witness ==
    /\ ~qc_cfg.enforce_drops /\ qc_cfg.fail_on_error
    /\ tracker.candidates_low_score = 1 /\ tracker.kept = 1
    /\ qcLast.via = "hook" /\ qcLast.kind = "raise"
    /\ qcLast.result = "record_qc_error"

\* --------------------------------------------------------------------- C14
C14_Step ==
    (/\ QCCallStep /\ qc_cfg.fail_on_error
     /\ qcLast'.via = "hook" /\ qcLast'.kind = "raise")
    => /\ qcLast'.result = "raise"
       /\ tracker'.errors = tracker.errors + 1

\* C14 (as claimed): with fail_on_error, when scorer.score_record raises the
\* exception leaves the hook's on_record (the record is neither dropped nor
\* kept) and qc.errors grows by exactly one.
C14_FailOnErrorPropagates == [][C14_Step]_vars

\* --------------------------------------------------------------------- C15
\* C15 (as claimed): after any sequence of process_record calls since the
\* last reset, scorer failures and malformed results included, every scored
\* record is in exactly one of kept, dropped_low_score, dropped_near_dup,
\* and the drops do not exceed their candidates.
C15_TrackerBalance ==
    /\ tracker.scored =
         tracker.kept + tracker.dropped_low_score + tracker.dropped_near_dup
    /\ tracker.dropped_low_score <= tracker.candidates_low_score
    /\ tracker.dropped_near_dup <= tracker.candidates_near_dup

\* ================================================== run-summary dispatch
\* core/hooks.py: RunSummaryHook.on_run_end -> _dispatch_finalizers.  A
\* runtime sink is JSONL-typed (JSONLSink / GzipJSONLSink) or not, writes to
\* the primary JSONL path or to another one, has a finalize method or none,
\* and its finalize returns or raises.
RuntimeSinks ==
    { s \in [jsonl : BOOLEAN, path : Paths, has_finalize : BOOLEAN,
             raises : BOOLEAN] : s.raises => s.has_finalize }

SinkSeqs(n) == UNION {[1..k -> RuntimeSinks] : k \in 0..n}

\* What the main pass left in every output: the header and a data record.
Written == <<"run_header", "chunk">>

\* sink.finalize([summary_record]): the sink appends the summary to its own
\* output after what it wrote before; a finalize that raises appends nothing.
SinkFinalize(fs, s) ==
    IF s.raises THEN fs
    ELSE [fs EXCEPT ![s.path] = Append(@, "run_summary")]

\* _append_run_summary(jsonl_path, summary): one line appended (mode "a").
AppendRunSummary(fs, path) == [fs EXCEPT ![path] = Append(@, "run_summary")]

\* RunSummaryHook.on_run_end calls _dispatch_finalizers(sinks, summary_record,
\* primary_jsonl_path, context) once the main pass is over.
FinStart ==
    /\ fin_sinks \in SinkSeqs(NumSinks)
    /\ primary_jsonl \in {"", "primary"}
    /\ files = [p \in Paths |-> Written]
    /\ wrote_jsonl = FALSE
    /\ finPc = "loop"
    /\ finIdx = 1

\* One iteration of `for sink in sinks`.
FinalizeSink ==
    /\ finPc = "loop" /\ finIdx <= Len(fin_sinks)
    /\ LET s == fin_sinks[finIdx] IN
        /\ files' = IF s.has_finalize THEN SinkFinalize(files, s) ELSE files
        /\ wrote_jsonl' =
             (wrote_jsonl \/ (s.has_finalize /\ ~s.raises /\ s.jsonl))
    /\ finIdx' = finIdx + 1
    /\ UNCHANGED <<fin_sinks, primary_jsonl, finPc>>
    /\ UNCHANGED besidesFin

\* The sink loop is over.
FinalizeLoopEnd ==
    /\ finPc = "loop" /\ finIdx > Len(fin_sinks)
    /\ finPc' = "fallback"
    /\ UNCHANGED <<fin_sinks, primary_jsonl, files, wrote_jsonl, finIdx>>
    /\ UNCHANGED besidesFin

\* `if primary_jsonl and not wrote_jsonl: _append_run_summary(...)`
Fallback ==
    /\ finPc = "fallback"
    /\ files' = IF primary_jsonl # "" /\ ~wrote_jsonl
                THEN AppendRunSummary(files, primary_jsonl) ELSE files
    /\ finPc' = "done"
    /\ UNCHANGED <<fin_sinks, primary_jsonl, wrote_jsonl, finIdx>>
    /\ UNCHANGED besidesFin

NextFin ==
    \/ FinalizeSink
    \/ FinalizeLoopEnd
    \/ Fallback

InitFin ==
    /\ PipeIdle
    /\ QCIdle
    /\ FinStart
    /\ MinhashIdle
    /\ ChunkIdle
    /\ DecodeIdle
    /\ RecordsIdle
    /\ BuilderIdle
    /\ AccelIdle
    /\ ConvertIdle
    /\ DownloadIdle

SpecFin == InitFin /\ [][NextFin]_vars

\* --------------------------------------------------------------------- C16
\* Number of lines of kind k in a file.
CountKind(f, k) == Cardinality({i \in 1..Len(f) : f[i] = k})

\* C16 (as claimed): after _dispatch_finalizers the primary JSONL holds
\* exactly one run_summary record, as its last line, after the header and
\* the data records written before, whatever the runtime sinks are.
C16_ExactlyOneFooter ==
    (finPc = "done" /\ primary_jsonl # "") =>
        LET f == files[primary_jsonl] IN
        /\ CountKind(f, "run_summary") = 1
        /\ f = Append(Written, "run_summary")

(***************************************************************************)
(* The MinHash coefficient cache: accel/python/sievio_accel/qc.py,         *)
(* _minhash_coeffs.  Threads call it concurrently; each step below is one  *)
(* access to the shared list, generator or lock.                           *)
(***************************************************************************)
\* _MINHASH_MAX_PERMS, scaled down.
MaxPerms == 3
\* Calls made during one run of the model.
MaxCoeffCalls == 3

\* _MINHASH_RNG.randrange(lo, _PRIME32 - 1): the value is a function of the
\* generator's position k in the stream seeded with _MINHASH_SEED and of lo.
\* Outputs at different positions are kept distinct, and an `a` (lo = 1) is
\* never equal to a `b` (lo = 0).
RandRange(k, lo) == lo + 2 * k

\* The list of the first n (a, b) pairs of the stream, a drawn before b.
CoeffStream(n) == [i \in 1..n |-> <<RandRange(2 * i - 1, 1), RandRange(2 * i, 0)>>]

SetPc(t, p) == [mhPc EXCEPT ![t] = p]

\* def _minhash_coeffs(n_perm): the argument checks and `if n_perm == 0`.
CoeffsCall(t) ==
    /\ mhPc[t] = "idle"
    /\ mhCalls < MaxCoeffCalls
    /\ mhCalls' = mhCalls + 1
    /\ \E n \in (0 - 1)..(MaxPerms + 1) :
        /\ n_perm' = [n_perm EXCEPT ![t] = n]
        /\ IF n < 0 \/ n > MaxPerms
           THEN /\ mhRet' = [mhRet EXCEPT ![t] = [kind |-> "ValueError",
                                                  val |-> <<>>]]
                /\ mhPc' = mhPc
           ELSE IF n = 0
           THEN /\ mhRet' = [mhRet EXCEPT ![t] = [kind |-> "list",
                                                  val |-> <<>>]]
                /\ mhPc' = mhPc
           ELSE /\ mhRet' = [mhRet EXCEPT ![t] = NoReturn]
                /\ mhPc' = SetPc(t, "check")
    /\ UNCHANGED <<MINHASH_COEFS, MINHASH_RNG, MINHASH_LOCK, mhLeft, mhA>>
    /\ UNCHANGED besidesMinhash

\* if len(_MINHASH_COEFS) < n_perm:   (read without the lock)
CoeffsCheck(t) ==
    /\ mhPc[t] = "check"
    /\ mhPc' = SetPc(t, IF Len(MINHASH_COEFS) < n_perm[t] THEN "lock"
                        ELSE "slice")
    /\ UNCHANGED <<MINHASH_COEFS, MINHASH_RNG, MINHASH_LOCK, n_perm, mhLeft,
                   mhA, mhRet, mhCalls>>
    /\ UNCHANGED besidesMinhash

CoeffsAcquireNoLock(t) ==
    /\ mhPc[t] = "lock"
    /\ MINHASH_LOCK' = t
    /\ mhPc' = SetPc(t, "recheck")
    /\ UNCHANGED <<MINHASH_COEFS, MINHASH_RNG, n_perm, mhLeft, mhA, mhRet,
                   mhCalls>>
    /\ UNCHANGED besidesMinhash

\* with _MINHASH_LOCK:   (blocks while another thread holds it)
CoeffsAcquire(t) ==
    /\ mhPc[t] = "lock"
    /\ MINHASH_LOCK = 0
    /\ MINHASH_LOCK' = t
    /\ mhPc' = SetPc(t, "recheck")
    /\ UNCHANGED <<MINHASH_COEFS, MINHASH_RNG, n_perm, mhLeft, mhA, mhRet,
                   mhCalls>>
    /\ UNCHANGED besidesMinhash

\* if len(_MINHASH_COEFS) < n_perm: for _ in range(len(_MINHASH_COEFS), n_perm)
\* The range is evaluated once, here.
CoeffsRecheck(t) ==
    /\ mhPc[t] = "recheck"
    /\ IF Len(MINHASH_COEFS) < n_perm[t]
       THEN /\ mhLeft' = [mhLeft EXCEPT ![t] = n_perm[t] - Len(MINHASH_COEFS)]
            /\ mhPc' = SetPc(t, "draw_a")
       ELSE /\ mhLeft' = mhLeft
            /\ mhPc' = SetPc(t, "unlock")
    /\ UNCHANGED <<MINHASH_COEFS, MINHASH_RNG, MINHASH_LOCK, n_perm, mhA,
                   mhRet, mhCalls>>
    /\ UNCHANGED besidesMinhash

\* a = _MINHASH_RNG.randrange(1, _PRIME32 - 1)
CoeffsDrawA(t) ==
    /\ mhPc[t] = "draw_a"
    /\ MINHASH_RNG' = MINHASH_RNG + 1
    /\ mhA' = [mhA EXCEPT ![t] = RandRange(MINHASH_RNG + 1, 1)]
    /\ mhPc' = SetPc(t, "draw_b")
    /\ UNCHANGED <<MINHASH_COEFS, MINHASH_LOCK, n_perm, mhLeft, mhRet,
                   mhCalls>>
    /\ UNCHANGED besidesMinhash

\* b = _MINHASH_RNG.randrange(0, _PRIME32 - 1); _MINHASH_COEFS.append((a, b))
\* One step: b is a local until the append, so a reader of the list between
\* the two sees what it would see before the draw.
CoeffsDrawB(t) ==
    /\ mhPc[t] = "draw_b"
    /\ MINHASH_RNG' = MINHASH_RNG + 1
    /\ MINHASH_COEFS' = Append(MINHASH_COEFS,
                               <<mhA[t], RandRange(MINHASH_RNG + 1, 0)>>)
    /\ mhLeft' = [mhLeft EXCEPT ![t] = mhLeft[t] - 1]
    /\ mhPc' = SetPc(t, IF mhLeft[t] = 1 THEN "unlock" ELSE "draw_a")
    /\ UNCHANGED <<MINHASH_LOCK, n_perm, mhA, mhRet, mhCalls>>
    /\ UNCHANGED besidesMinhash

\* leaving the `with` block
CoeffsRelease(t) ==
    /\ mhPc[t] = "unlock"
    /\ MINHASH_LOCK' = 0
    /\ mhPc' = SetPc(t, "slice")
    /\ UNCHANGED <<MINHASH_COEFS, MINHASH_RNG, n_perm, mhLeft, mhA, mhRet,
                   mhCalls>>
    /\ UNCHANGED besidesMinhash

\* return _MINHASH_COEFS[:n_perm]   (read without the lock; a slice past the
\* end of the list stops at the end)
CoeffsReturn(t) ==
    /\ mhPc[t] = "slice"
    /\ mhRet' = [mhRet EXCEPT ![t] =
                    [kind |-> "list",
                     val |-> SubSeq(MINHASH_COEFS, 1,
                                    IF n_perm[t] < Len(MINHASH_COEFS)
                                    THEN n_perm[t] ELSE Len(MINHASH_COEFS))]]
    /\ mhPc' = SetPc(t, "idle")
    /\ UNCHANGED <<MINHASH_COEFS, MINHASH_RNG, MINHASH_LOCK, n_perm, mhLeft,
                   mhA, mhCalls>>
    /\ UNCHANGED besidesMinhash

NextMinhash ==
    \E t \in Threads :
        \/ CoeffsCall(t)
        \/ CoeffsCheck(t)
        \/ CoeffsAcquire(t)
        \/ CoeffsRecheck(t)
        \/ CoeffsDrawA(t)
        \/ CoeffsDrawB(t)
        \/ CoeffsRelease(t)
        \/ CoeffsReturn(t)

InitMinhash ==
    /\ PipeIdle
    /\ QCIdle
    /\ FinIdle
    /\ MinhashIdle
    /\ ChunkIdle
    /\ DecodeIdle
    /\ RecordsIdle
    /\ BuilderIdle
    /\ AccelIdle
    /\ ConvertIdle
    /\ DownloadIdle

SpecMinhash == InitMinhash /\ [][NextMinhash]_vars

\* --------------------------------------------------------------------- C17
\* The cache holds a prefix of the one stream, and every list returned by a
\* call with argument n is the first n pairs of that stream.
C17_State ==
    /\ MINHASH_COEFS = CoeffStream(Len(MINHASH_COEFS))
    /\ \A t \in Threads :
        (mhRet[t].kind = "list" /\ mhPc[t] = "idle") =>
            mhRet[t].val = CoeffStream(n_perm[t])

\* The cache only grows, and what it held stays as it was.
C17_Step ==
    /\ Len(MINHASH_COEFS') >= Len(MINHASH_COEFS)
    /\ SubSeq(MINHASH_COEFS', 1, Len(MINHASH_COEFS)) = MINHASH_COEFS

\* C17: for any interleaving of concurrent _minhash_coeffs(n) calls, every
\* call returns exactly the first n pairs of one fixed sequence (a drawn
\* before b for each pair); the cache only grows, an appended entry never
\* changes and the draws of two callers never interleave, so the
\* coefficients for m permutations are a prefix of those for n >= m.
C17_ConsistentPrefix == [](C17_State) /\ [][C17_Step]_vars

\* Two callers contend while the cache grows: one holds the lock between its
\* two draws, the other waits for the lock with a larger request, and an
\* earlier call has already returned a non-empty list.
C17_Witness ==
    \E t \in Threads, u \in Threads :
        /\ t # u
        /\ mhPc[t] = "draw_b"
        /\ mhPc[u] = "lock"
        /\ n_perm[u] > n_perm[t]
        /\ Len(MINHASH_COEFS) >= 1

(***************************************************************************)
(* Chunking: chunk.py.  A str is the sequence of its characters.  The      *)
(* texts are over an alphabet with a lowercase and an uppercase letter, a  *)
(* full stop, a space and a newline; it has none of ` ~ | # - * + _ nor a  *)
(* digit, so of the branches of _split_markdown_blocks only the indented   *)
(* code block and the paragraph can match, and a block never holds a fence.*)
(***************************************************************************)
MaxLen == 5
MaxTarget == 1
MaxOverlap == 1
MaxMinTokens == 1

Alphabet == {"a", "A", ".", " ", "\n"}

Texts == UNION {[1..n -> Alphabet] : n \in 0..MaxLen}

\* ChunkPolicy(mode, target_tokens, overlap_tokens, min_tokens)
ChunkPolicy ==
    [mode : {"auto", "doc", "code"}, target_tokens : 0..MaxTarget,
     overlap_tokens : 0..MaxOverlap, min_tokens : 0..MaxMinTokens]

\* Chunk(text, start, end, est_tokens)
Chunk(s, start, end, est) ==
    [text |-> s, start |-> start, end |-> end, est_tokens |-> est]

\* ---- str helpers
IsSpace(c) == c \in {" ", "\n"}

Count(s, set) == Cardinality({i \in 1..Len(s) : s[i] \in set})

RECURSIVE Join(_)
\* "".join(parts)
Join(parts) ==
    IF parts = <<>> THEN <<>> ELSE Head(parts) \o Join(Tail(parts))

RECURSIVE JoinSpace(_)
\* " ".join(parts)
JoinSpace(parts) ==
    IF parts = <<>> THEN <<>>
    ELSE IF Len(parts) = 1 THEN Head(parts)
    ELSE Head(parts) \o <<" ">> \o JoinSpace(Tail(parts))

RECURSIVE LStrip(_)
LStrip(s) == IF s # <<>> /\ IsSpace(Head(s)) THEN LStrip(Tail(s)) ELSE s

RECURSIVE RStrip(_)
RStrip(s) ==
    IF s # <<>> /\ IsSpace(s[Len(s)]) THEN RStrip(SubSeq(s, 1, Len(s) - 1))
    ELSE s

\* s.strip()
Strip(s) == RStrip(LStrip(s))

RECURSIVE SplitLines(_)
\* s.splitlines(keepends=True)
SplitLines(s) ==
    IF s = <<>> THEN <<>>
    ELSE LET nl == {i \in 1..Len(s) : s[i] = "\n"} IN
         IF nl = {} THEN <<s>>
         ELSE LET k == CHOOSE i \in nl : \A j \in nl : i <= j IN
              <<SubSeq(s, 1, k)>> \o SplitLines(SubSeq(s, k + 1, Len(s)))

\* ---- token estimate
\* _char_token_ratio(kind, text) * 5 * len(text), an integer:
\* ratio = base - 0.8 * (sym + digits) / n + 0.2 * spaces / n, clamped into
\* [2.8, 4.6], with base 3.2 for code and 4.0 otherwise.
RatioTimes5N(kind, s) ==
    LET n == Len(s)
        sym == Count(s, {"."})
        spaces == Count(s, {" ", "\n"})
        raw == (IF kind = "code" THEN 16 ELSE 20) * n - 4 * sym + spaces
    IN  IF raw < 14 * n THEN 14 * n ELSE IF raw > 23 * n THEN 23 * n ELSE raw

\* approx_token_count(text, kind) = ceil(len(text) / ratio)
approx_token_count(s, kind) ==
    IF s = <<>> THEN 0
    ELSE LET q == RatioTimes5N(kind, s)
             n == Len(s)
         IN  (5 * n * n + q - 1) \div q

\* int(tokens * _char_token_ratio("doc", s))
TokensToChars(tokens, s) ==
    (tokens * RatioTimes5N("doc", s)) \div (5 * Len(s))

\* ---- _split_markdown_blocks
\* _INDENTED_CODE.match(line): four or more spaces, then a non-blank.
IndentedCode(line) ==
    /\ Len(line) >= 5
    /\ \A i \in 1..4 : line[i] = " "
    /\ \E k \in 5..Len(line) :
        /\ \A i \in 1..(k - 1) : line[i] = " "
        /\ ~IsSpace(line[k])

RECURSIVE SplitBlocks(_, _, _, _, _, _)
\* The `while i < len(lines)` loop and the final flush(); buf is "".join(buf).
SplitBlocks(lines, i, pos, buf, buf_start, blocks) ==
    LET flushed == IF buf = <<>> THEN blocks
                   ELSE Append(blocks, [text |-> buf, start |-> buf_start,
                                        end |-> buf_start + Len(buf)])
    IN
    IF i > Len(lines) THEN flushed
    ELSE LET line == lines[i] IN
         IF IndentedCode(line)
         THEN LET more(k) == Strip(lines[k]) = <<>> \/ IndentedCode(lines[k])
                  j == CHOOSE e \in i..Len(lines) :
                          /\ \A k \in (i + 1)..e : more(k)
                          /\ e = Len(lines) \/ ~more(e + 1)
                  cbuf == Join(SubSeq(lines, i, j))
              IN  SplitBlocks(lines, j + 1, pos + Len(cbuf), <<>>, buf_start,
                              Append(flushed,
                                     [text |-> cbuf, start |-> pos,
                                      end |-> pos + Len(cbuf)]))
         ELSE LET nstart == IF buf = <<>> THEN pos ELSE buf_start
                  nbuf == buf \o line
              IN  IF Strip(line) = <<>>
                  THEN SplitBlocks(lines, i + 1, pos + Len(line), <<>>,
                                   nstart,
                                   Append(blocks,
                                          [text |-> nbuf, start |-> nstart,
                                           end |-> nstart + Len(nbuf)]))
                  ELSE SplitBlocks(lines, i + 1, pos + Len(line), nbuf,
                                   nstart, blocks)

split_markdown_blocks(s) == SplitBlocks(SplitLines(s), 1, 0, <<>>, 0, <<>>)

\* ---- _split_paragraph_into_sentences
RECURSIVE SentParts(_, _, _)
\* _SENT_SPLIT.split(p): a separator is a run of blanks that follows a full
\* stop and is followed by an uppercase letter.
SentParts(p, from, i) ==
    IF i > Len(p) THEN <<SubSeq(p, from, Len(p))>>
    ELSE IF i > 1 /\ p[i - 1] = "." /\ IsSpace(p[i])
    THEN LET j == CHOOSE e \in i..Len(p) :
                     /\ \A k \in i..e : IsSpace(p[k])
                     /\ e = Len(p) \/ ~IsSpace(p[e + 1])
         IN  IF j < Len(p) /\ p[j + 1] = "A"
             THEN <<SubSeq(p, from, i - 1)>> \o SentParts(p, j + 1, j + 1)
             ELSE SentParts(p, from, j + 1)
    ELSE SentParts(p, from, i + 1)

RECURSIVE StripAll(_)
\* [s.strip() for s in parts if s.strip()]
StripAll(parts) ==
    IF parts = <<>> THEN <<>>
    ELSE (IF Strip(Head(parts)) = <<>> THEN <<>> ELSE <<Strip(Head(parts))>>)
         \o StripAll(Tail(parts))

split_paragraph_into_sentences(p) ==
    IF Strip(p) = <<>> THEN <<>> ELSE StripAll(SentParts(Strip(p), 1, 1))

\* ---- chunk_by_paragraphs
\* The closure state: chunks, "".join(cur_text), cur_start.
\* flush_chunk(kind)
flush_chunk(st, kind, overlap_tokens) ==
    IF st.cur = <<>> THEN st
    ELSE LET ctext == st.cur
             end == st.cur_start + Len(ctext)
             out == Append(st.chunks,
                           Chunk(ctext, st.cur_start, end,
                                 approx_token_count(ctext, kind)))
             tail_chars == TokensToChars(overlap_tokens, ctext)
             overlap_tail == IF tail_chars = 0 \/ tail_chars >= Len(ctext)
                             THEN ctext
                             ELSE SubSeq(ctext, Len(ctext) - tail_chars + 1,
                                         Len(ctext))
         IN  IF overlap_tokens > 0
             THEN [chunks |-> out, cur |-> overlap_tail,
                   cur_start |-> end - Len(overlap_tail)]
             ELSE [chunks |-> out, cur |-> <<>>, cur_start |-> st.cur_start]

\* cur_text.append(s)
CurAppend(st, s) == [st EXCEPT !.cur = @ \o s]

RECURSIVE PackLines(_, _, _, _, _, _)
\* The oversized code-like block: `for ln in lines` and `if pack`.
PackLines(lines, i, pack, st, target_tokens, overlap_tokens) ==
    IF i > Len(lines)
    THEN IF pack # <<>> THEN CurAppend(st, pack) ELSE st
    ELSE LET p == pack \o lines[i] IN
         IF approx_token_count(p, "code") >= target_tokens
         THEN PackLines(lines, i + 1, <<>>,
                        flush_chunk(CurAppend(st, p), "code", overlap_tokens),
                        target_tokens, overlap_tokens)
         ELSE PackLines(lines, i + 1, p, st, target_tokens, overlap_tokens)

RECURSIVE PackSentences(_, _, _, _, _, _)
\* The oversized paragraph: `for s in sentences` and `if pack`.
PackSentences(sentences, i, pack, st, target_tokens, overlap_tokens) ==
    LET packed == Strip(JoinSpace(pack)) \o <<"\n">> IN
    IF i > Len(sentences)
    THEN IF pack # <<>> THEN CurAppend(st, packed) ELSE st
    ELSE LET s == sentences[i]
             candidate == Strip(JoinSpace(Append(pack, s)))
         IN  IF approx_token_count(candidate, "doc") > target_tokens
                /\ pack # <<>>
             THEN PackSentences(sentences, i + 1, <<s>>,
                                flush_chunk(CurAppend(st, packed), "doc",
                                            overlap_tokens),
                                target_tokens, overlap_tokens)
             ELSE PackSentences(sentences, i + 1, Append(pack, s), st,
                                target_tokens, overlap_tokens)

RECURSIVE HardSplit(_, _, _, _, _)
\* for i in range(0, len(btxt), step_chars): append the slice, flush.
HardSplit(btxt, i, step_chars, st, overlap_tokens) ==
    IF i >= Len(btxt) \/ step_chars <= 0 THEN st
    ELSE LET e == IF i + step_chars < Len(btxt) THEN i + step_chars
                  ELSE Len(btxt)
         IN  HardSplit(btxt, i + step_chars, step_chars,
                       flush_chunk(CurAppend(st, SubSeq(btxt, i + 1, e)),
                                   "doc", overlap_tokens),
                       overlap_tokens)

\* One iteration of `for btxt, bstart, bend in blocks`.
PackBlock(st, b, pol) ==
    LET btxt == b.text
        target_tokens == pol.target_tokens
        b_tokens == approx_token_count(btxt, "doc")
        limit == IF target_tokens > 2 * target_tokens THEN target_tokens
                 ELSE 2 * target_tokens
    IN
    IF Strip(btxt) = <<>> THEN st
    ELSE IF b_tokens > limit
    THEN IF Len(btxt) >= 4 /\ \A i \in 1..4 : btxt[i] = " "
         THEN PackLines(SplitLines(btxt), 1, <<>>, st, target_tokens,
                        pol.overlap_tokens)
         ELSE LET sentences == split_paragraph_into_sentences(btxt) IN
              IF sentences = <<>>
              THEN HardSplit(btxt, 0, TokensToChars(target_tokens, btxt), st,
                             pol.overlap_tokens)
              ELSE PackSentences(sentences, 1, <<>>, st, target_tokens,
                                 pol.overlap_tokens)
    ELSE IF approx_token_count(st.cur \o btxt, "doc") > target_tokens
            /\ approx_token_count(st.cur, "doc") >= pol.min_tokens
    THEN [flush_chunk(st, "doc", pol.overlap_tokens)
             EXCEPT !.cur = btxt, !.cur_start = b.start]
    ELSE [st EXCEPT !.cur = @ \o btxt,
                    !.cur_start = IF st.cur = <<>> THEN b.start ELSE @]

RECURSIVE PackBlocks(_, _, _, _)
PackBlocks(blocks, i, st, pol) ==
    IF i > Len(blocks) THEN st
    ELSE PackBlocks(blocks, i + 1, PackBlock(st, blocks[i], pol), pol)

chunk_by_paragraphs(s, pol) ==
    LET st == PackBlocks(split_markdown_blocks(s), 1,
                         [chunks |-> <<>>, cur |-> <<>>, cur_start |-> 0],
                         pol)
        out == flush_chunk(st, "doc", pol.overlap_tokens).chunks
    IN  IF out = <<>> /\ s # <<>>
        THEN <<Chunk(s, 0, Len(s), approx_token_count(s, "doc"))>>
        ELSE out

\* ---- chunk_by_lines (overlap_lines = 0, as chunk_text calls it)
RECURSIVE PackCode(_, _, _, _, _, _)
\* The `while i < len(lines)` loop and the final flush().
PackCode(lines, i, buf, buf_start, out, target_tokens) ==
    LET flush(b, bs, o) ==
            IF b = <<>> THEN o
            ELSE Append(o, Chunk(b, bs, bs + Len(b),
                                 approx_token_count(b, "code")))
    IN
    IF i > Len(lines) THEN flush(buf, buf_start, out)
    ELSE LET nstart == IF buf = <<>>
                       THEN Len(Join(SubSeq(lines, 1, i - 1)))
                       ELSE buf_start
             nbuf == buf \o lines[i]
         IN  IF approx_token_count(nbuf, "code") >= target_tokens
             THEN PackCode(lines, i + 1, <<>>, nstart,
                           flush(nbuf, nstart, out), target_tokens)
             ELSE PackCode(lines, i + 1, nbuf, nstart, out, target_tokens)

chunk_by_lines(s, target_tokens) ==
    LET out == PackCode(SplitLines(s), 1, <<>>, 0, <<>>, target_tokens) IN
    IF out = <<>> /\ s # <<>>
    THEN <<Chunk(s, 0, Len(s), approx_token_count(s, "code"))>>
    ELSE out

\* ---- chunk_text
\* _looks_like_code(text): punct / len > 0.06, or more than 70% of more than
\* six lines are at most 60 characters long.
looks_like_code(s) ==
    LET lines == SplitLines(s)
        width(ln) == IF ln[Len(ln)] = "\n" THEN Len(ln) - 1 ELSE Len(ln)
        short_lines == Cardinality({i \in 1..Len(lines) :
                                       width(lines[i]) <= 60})
        total_lines == IF Len(lines) > 1 THEN Len(lines) ELSE 1
    IN  /\ s # <<>>
        /\ \/ 100 * Count(s, {"."}) > 6 * Len(s)
           \/ 10 * short_lines > 7 * total_lines /\ total_lines > 6

chunk_text(s, pol) ==
    LET mode == IF pol.mode = "auto"
                THEN (IF looks_like_code(s) THEN "code" ELSE "doc")
                ELSE pol.mode
    IN  IF mode = "code" THEN chunk_by_lines(s, pol.target_tokens)
        ELSE chunk_by_paragraphs(s, pol)

\* ---- the call
ChunkStart ==
    /\ text \in Texts
    /\ policy \in ChunkPolicy
    /\ chunks = <<>>
    /\ chunkPc = "call"

\* chunks = chunk_text(text, policy)
ChunkText ==
    /\ chunkPc = "call"
    /\ chunks' = chunk_text(text, policy)
    /\ chunkPc' = "returned"
    /\ UNCHANGED <<text, policy>>
    /\ UNCHANGED besidesChunk

NextChunkText == ChunkText

InitChunk ==
    /\ PipeIdle
    /\ QCIdle
    /\ FinIdle
    /\ MinhashIdle
    /\ ChunkStart
    /\ DecodeIdle
    /\ RecordsIdle
    /\ BuilderIdle
    /\ AccelIdle
    /\ ConvertIdle
    /\ DownloadIdle

SpecChunk == InitChunk /\ [][NextChunkText]_vars

\* The mode chunk_text settles on.
EffectiveMode ==
    IF policy.mode = "auto"
    THEN (IF looks_like_code(text) THEN "code" ELSE "doc")
    ELSE policy.mode

\* --------------------------------------------------------------------- C18
\* C18 (as claimed): for a non-empty text the chunks returned by chunk_text
\* cover it: every offset in [0, len(text)) lies in some [start, end), every
\* interval lies within [0, len(text)], and starts are non-decreasing.
\* Stated for the policies with target_tokens > 0 only.
C18_ChunksCoverText ==
    (chunkPc = "returned" /\ text # <<>> /\ policy.target_tokens > 0) =>
        /\ \A i \in 0..(Len(text) - 1) :
            \E k \in 1..Len(chunks) :
                chunks[k].start <= i /\ i < chunks[k].end
        /\ \A k \in 1..Len(chunks) :
            /\ 0 <= chunks[k].start
            /\ chunks[k].start <= chunks[k].end
            /\ chunks[k].end <= Len(text)
        /\ \A k \in 1..(Len(chunks) - 1) :
            chunks[k].start <= chunks[k + 1].start

\* --------------------------------------------------------------------- C19
\* C19 (as claimed): when no overlap is injected (code mode, or doc mode
\* with overlap_tokens = 0) every chunk is the slice it names:
\* text[start:end] == chunk.text with 0 <= start < end <= len(text).
\* Stated for the policies with target_tokens > 0 only.
C19_ChunkIsSlice ==
    (/\ chunkPc = "returned"
     /\ policy.target_tokens > 0
     /\ EffectiveMode = "code" \/ policy.overlap_tokens = 0) =>
        \A k \in 1..Len(chunks) :
            /\ 0 <= chunks[k].start
            /\ chunks[k].start < chunks[k].end
            /\ chunks[k].end <= Len(text)
            /\ SubSeq(text, chunks[k].start + 1, chunks[k].end)
                   = chunks[k].text

\* --------------------------------------------------------------------- C20
\* The text is one paragraph: _split_markdown_blocks yields one block, which
\* is not blank and not an indented code block.
SingleParagraph ==
    LET blocks == split_markdown_blocks(text) IN
    /\ Len(blocks) = 1
    /\ Strip(text) # <<>>
    /\ ~IndentedCode(SplitLines(text)[1])

\* C20 (as claimed): in doc mode, a text that is a single paragraph with
\* more approximate tokens than target_tokens yields at least 2 chunks, for
\* every target_tokens > 0.
C20_OversizedParagraphSplits ==
    (/\ chunkPc = "returned"
     /\ EffectiveMode = "doc"
     /\ policy.target_tokens > 0
     /\ SingleParagraph
     /\ approx_token_count(text, "doc") > policy.target_tokens) =>
        Len(chunks) >= 2

(***************************************************************************)
(* Termination of process_items_parallel.  The scheduler is fair: a step   *)
(* of the calling thread or of a pool thread that stays possible is taken. *)
(***************************************************************************)
SpecLive == Init /\ [][Next]_vars /\ WF_vars(Next)

\* --------------------------------------------------------------------- C30
\* process_items_parallel is over: the `with pool` block has been left.
PoolLeft == Parallel /\ pc \in {"close", "returned", "raised"}

\* Item i got into the pool: pool.submit returned a future for it.
Submitted(i) == fut[i] \in {"queued", "ok", "err"}

\* On a normal return nothing is pending, and each submitted item was
\* resolved by exactly one write_records or on_worker_error call.
C30_State ==
    (PoolLeft /\ ~LoopRaised) =>
        /\ pending = {} /\ done = {}
        /\ \A i \in Items :
            Submitted(i) =>
                /\ fut[i] # "queued"
                /\ NCalls("write_records", i) + NCalls("on_worker_error", i) = 1
                /\ NCalls("on_worker_error", i) = 1 => ~cfg.fail_fast

\* A blocking drain that returns has taken at least one future off pending.
C30_Step ==
    (pc = "drain" /\ pc' # "drain") =>
        /\ pending' # pending
        /\ pending' \subseteq pending

\* C30: for a finite `items` whose process_one calls and write_records all
\* terminate, process_items_parallel eventually returns (or raises under
\* fail_fast) with no future left pending: every blocking drain removes at
\* least one future, and every submitted item is resolved before the return
\* by one write_records call, or by one on_worker_error call when fail_fast
\* is false.
C30_Terminates ==
    /\ (Parallel ~> PoolLeft)
    /\ [](C30_State)
    /\ [][C30_Step]_vars

\* A run that returned normally after a blocking drain of the final loop
\* found a failed future and a good one.
C30_Witness ==
    /\ PoolLeft /\ ~LoopRaised
    /\ drainFrom = "final"
    /\ \E i, j \in Items :
        /\ NCalls("on_worker_error", i) = 1
        /\ NCalls("write_records", j) = 1

\* --------------------------------------------------------------------- C27
\* Every counter of a tracker is zero and it has no duplicate family.
ZeroCounts(tr) ==
    /\ tr.scored = 0 /\ tr.kept = 0
    /\ tr.dropped_low_score = 0 /\ tr.dropped_near_dup = 0
    /\ tr.errors = 0
    /\ tr.candidates_low_score = 0 /\ tr.candidates_near_dup = 0
    /\ tr.dup_families = 0

\* The counts of the current run are bounded by the records handed over
\* since its on_run_start: nothing of an earlier run is in them.
C27_State ==
    /\ qcCalls = 0 => ZeroCounts(tracker)
    /\ tracker.scored <= qcCalls
    /\ tracker.kept + tracker.dropped_low_score + tracker.dropped_near_dup
           <= qcCalls
    /\ tracker.candidates_low_score <= qcCalls
    /\ tracker.candidates_near_dup <= qcCalls
    /\ tracker.dup_families <= qcCalls

\* The step on_run_start takes: the tracker it leaves is zeroed and is the
\* object ctx.stats.qc refers to.
C27_Step ==
    qcLast'.via = "on_run_start" =>
        /\ ZeroCounts(tracker')
        /\ qcLast'.result = "summary"

\* C27: after InlineQCHook.on_run_start(ctx) the controller's tracker has
\* every counter at zero and no duplicate families, ctx.stats.qc is that
\* same tracker object, and records processed during an earlier run of the
\* same hook contribute nothing to the counts of the new run.
C27_RunStartResets == [](C27_State) /\ [][C27_Step]_vars

\* on_run_start has just run on a hook that had processed records before
\* (the action is taken only then).
C27_Witness ==
    /\ qcLast.via = "on_run_start"
    /\ qcCalls = 0
    /\ ZeroCounts(tracker)

(***************************************************************************)
(* Decoding: sievio/core/decode.py.  bytes are sequences of 0..255, a str  *)
(* is the sequence of its code points.  The inputs are the short byte      *)
(* strings over ShortBytes and the longer ones over NulBytes (enough NULs  *)
(* for the UTF-16 guess).  Every code point these decode to is unchanged   *)
(* by NFC, and none is a CR.                                               *)
(***************************************************************************)
MaxBytes == 3
MaxSample == 8

Hex2(a, b) == a * 16 + b
Hex4(a, b, c, d) == Hex2(a, b) * 256 + Hex2(c, d)

\* U+FFFD REPLACEMENT CHARACTER
ReplacementChar == Hex4(15, 15, 15, 13)

\* 00, 'a', 81 (undefined in cp1252), EF BF BD (U+FFFD in UTF-8), FF, FE
ShortBytes == {0, Hex2(6, 1), Hex2(8, 1), Hex2(14, 15), Hex2(11, 15),
               Hex2(11, 13), Hex2(15, 15), Hex2(15, 14)}
NulBytes == {0, Hex2(6, 1), Hex2(8, 1)}

SeqsUpTo(S, n) == UNION {[1..k -> S] : k \in 0..n}

DecodeInputs == SeqsUpTo(ShortBytes, MaxBytes) \cup SeqsUpTo(NulBytes, MaxSample)

\* decode_bytes(data, *, strip_controls, fix_mojibake); normalize is "NFC".
DecodeOptions == [strip_controls : BOOLEAN, fix_mojibake : BOOLEAN]

\* ---- codecs: bytes.decode(enc, errors="strict")
Failed == [ok |-> FALSE, text |-> <<>>]
Decoded(s) == [ok |-> TRUE, text |-> s]

IsCont(b) == 128 <= b /\ b <= 191
IsSurrogate(cp) == Hex4(13, 8, 0, 0) <= cp /\ cp <= Hex4(13, 15, 15, 15)

RECURSIVE Utf8(_, _, _)
\* UTF-8, strict: shortest form only, no surrogates, at most U+10FFFF.
Utf8(d, i, acc) ==
    LET n == Len(d)
        b == d[i]
        c(k) == d[i + k] - 128
    IN
    IF i > n THEN Decoded(acc)
    ELSE IF b < 128 THEN Utf8(d, i + 1, Append(acc, b))
    ELSE IF 194 <= b /\ b <= 223
    THEN IF i + 1 <= n /\ IsCont(d[i + 1])
         THEN Utf8(d, i + 2, Append(acc, (b - 192) * 64 + c(1)))
         ELSE Failed
    ELSE IF 224 <= b /\ b <= 239
    THEN IF /\ i + 2 <= n /\ IsCont(d[i + 1]) /\ IsCont(d[i + 2])
            /\ b = 224 => d[i + 1] >= 160
            /\ b = 237 => d[i + 1] <= 159
         THEN Utf8(d, i + 3,
                   Append(acc, (b - 224) * 4096 + c(1) * 64 + c(2)))
         ELSE Failed
    ELSE IF 240 <= b /\ b <= 244
    THEN IF /\ i + 3 <= n
            /\ IsCont(d[i + 1]) /\ IsCont(d[i + 2]) /\ IsCont(d[i + 3])
            /\ b = 240 => d[i + 1] >= 144
            /\ b = 244 => d[i + 1] <= 143
         THEN Utf8(d, i + 4,
                   Append(acc, (b - 240) * 262144 + c(1) * 4096
                                + c(2) * 64 + c(3)))
         ELSE Failed
    ELSE Failed

RECURSIVE Utf16(_, _, _, _)
\* UTF-16 without BOM handling (utf-16-le / utf-16-be), strict.
Utf16(d, i, le, acc) ==
    LET n == Len(d)
        unit(k) == IF le THEN d[k + 1] * 256 + d[k] ELSE d[k] * 256 + d[k + 1]
        u == unit(i)
    IN
    IF i > n THEN Decoded(acc)
    ELSE IF i + 1 > n THEN Failed
    ELSE IF ~IsSurrogate(u) THEN Utf16(d, i + 2, le, Append(acc, u))
    ELSE IF /\ u < Hex4(13, 12, 0, 0)
            /\ i + 3 <= n
            /\ Hex4(13, 12, 0, 0) <= unit(i + 2)
            /\ unit(i + 2) <= Hex4(13, 15, 15, 15)
    THEN Utf16(d, i + 4, le,
               Append(acc, 65536 + (u - Hex4(13, 8, 0, 0)) * 1024
                            + (unit(i + 2) - Hex4(13, 12, 0, 0))))
    ELSE Failed

RECURSIVE Utf32(_, _, _, _)
\* UTF-32 without BOM handling (utf-32-le / utf-32-be), strict.
Utf32(d, i, le, acc) ==
    LET n == Len(d)
        top == IF le THEN d[i + 3] ELSE d[i]
        cp == IF le THEN d[i + 2] * 65536 + d[i + 1] * 256 + d[i]
              ELSE d[i + 1] * 65536 + d[i + 2] * 256 + d[i + 3]
    IN
    IF i > n THEN Decoded(acc)
    ELSE IF i + 3 > n THEN Failed
    ELSE IF top = 0 /\ cp <= 1114111 /\ ~IsSurrogate(cp)
    THEN Utf32(d, i + 4, le, Append(acc, cp))
    ELSE Failed

\* cp1252: the bytes 80..9F that are defined, with their code points.
Cp1252High ==
    (128 :> 8364) @@ (130 :> 8218) @@ (131 :> 402) @@ (132 :> 8222)
    @@ (133 :> 8230) @@ (134 :> 8224) @@ (135 :> 8225) @@ (136 :> 710)
    @@ (137 :> 8240) @@ (138 :> 352) @@ (139 :> 8249) @@ (140 :> 338)
    @@ (142 :> 381) @@ (145 :> 8216) @@ (146 :> 8217) @@ (147 :> 8220)
    @@ (148 :> 8221) @@ (149 :> 8226) @@ (150 :> 8211) @@ (151 :> 8212)
    @@ (152 :> 732) @@ (153 :> 8482) @@ (154 :> 353) @@ (155 :> 8250)
    @@ (156 :> 339) @@ (158 :> 382) @@ (159 :> 376)

Cp1252Defined(b) == b < 128 \/ b >= 160 \/ b \in DOMAIN Cp1252High

Cp1252(d) ==
    IF \A i \in 1..Len(d) : Cp1252Defined(d[i])
    THEN Decoded([i \in 1..Len(d) |->
                     IF d[i] \in DOMAIN Cp1252High THEN Cp1252High[d[i]]
                     ELSE d[i]])
    ELSE Failed

\* str.encode("cp1252", errors="strict")
Cp1252Encodable(cp) ==
    cp < 128 \/ (160 <= cp /\ cp <= 255)
    \/ \E b \in DOMAIN Cp1252High : Cp1252High[b] = cp

Cp1252Encode(s) ==
    IF \A i \in 1..Len(s) : Cp1252Encodable(s[i])
    THEN Decoded([i \in 1..Len(s) |->
                     IF s[i] < 256 THEN s[i]
                     ELSE CHOOSE b \in DOMAIN Cp1252High :
                              Cp1252High[b] = s[i]])
    ELSE Failed

\* Mutant of Utf8Decode: errors="replace", as far as these inputs differ.
Utf8DecodeReplace(d) ==
    [ok |-> TRUE,
     text |-> [i \in 1..Len(d) |-> IF d[i] < 128 THEN d[i]
                                   ELSE ReplacementChar]]

\* data.decode("utf-8", errors="strict")
Utf8Decode(d) == Utf8(d, 1, <<>>)

\* data.decode(enc, errors="strict")
Decode(enc, d) ==
    IF enc = "utf-8" THEN Utf8Decode(d)
    ELSE IF enc = "utf-8-sig"
    THEN (IF Len(d) >= 3 /\ SubSeq(d, 1, 3) = <<239, 187, 191>>
          THEN Utf8(SubSeq(d, 4, Len(d)), 1, <<>>) ELSE Utf8(d, 1, <<>>))
    ELSE IF enc = "utf-16-le" THEN Utf16(d, 1, TRUE, <<>>)
    ELSE IF enc = "utf-16-be" THEN Utf16(d, 1, FALSE, <<>>)
    ELSE IF enc = "utf-32-le" THEN Utf32(d, 1, TRUE, <<>>)
    ELSE IF enc = "utf-32-be" THEN Utf32(d, 1, FALSE, <<>>)
    ELSE IF enc = "cp1252" THEN Cp1252(d)
    ELSE Decoded(d)

StartsWith(d, sig) == Len(d) >= Len(sig) /\ SubSeq(d, 1, Len(sig)) = sig

\* _detect_bom: the signatures of _BOMS, longest first.
detect_bom(d) ==
    IF StartsWith(d, <<0, 0, 254, 255>>) THEN "utf-32-be"
    ELSE IF StartsWith(d, <<255, 254, 0, 0>>) THEN "utf-32-le"
    ELSE IF StartsWith(d, <<239, 187, 191>>) THEN "utf-8-sig"
    ELSE IF StartsWith(d, <<254, 255>>) THEN "utf-16-be"
    ELSE IF StartsWith(d, <<255, 254>>) THEN "utf-16-le"
    ELSE "none"

\* _guess_utf16_endian_from_nuls(sample)
guess_utf16_endian_from_nuls(sample) ==
    LET even_nuls == Cardinality({i \in 1..Len(sample) :
                                     (i - 1) % 2 = 0 /\ sample[i] = 0})
        odd_nuls == Cardinality({i \in 1..Len(sample) :
                                    (i - 1) % 2 = 1 /\ sample[i] = 0})
        total_nuls == even_nuls + odd_nuls
        need == IF Len(sample) \div 64 > 4 THEN Len(sample) \div 64 ELSE 4
    IN  IF sample = <<>> THEN "none"
        ELSE IF total_nuls < need THEN "none"
        ELSE IF even_nuls > odd_nuls * 2 THEN "utf-16-be"
        ELSE IF odd_nuls > even_nuls * 2 THEN "utf-16-le"
        ELSE "none"

\* ---- post-processing
RECURSIVE normalize_newlines(_)
\* s.replace("\r\n", "\n").replace("\r", "\n")
normalize_newlines(s) ==
    IF s = <<>> THEN <<>>
    ELSE IF Head(s) = 13
    THEN <<10>> \o normalize_newlines(
                      IF Len(s) >= 2 /\ s[2] = 10 THEN SubSeq(s, 3, Len(s))
                      ELSE Tail(s))
    ELSE <<Head(s)>> \o normalize_newlines(Tail(s))

\* _ZERO_WIDTH
ZERO_WIDTH == {Hex4(2, 0, 0, 11), Hex4(2, 0, 0, 12), Hex4(2, 0, 0, 13),
               Hex4(2, 0, 6, 0), Hex4(15, 14, 15, 15)}

\* unicodedata.category(ch)[0] == "C" for the code points the inputs decode
\* to: the Cc, Cs and Co ranges, and the Cf and Cn code points among them.
CategoryC(cp) ==
    \/ cp <= 31
    \/ 127 <= cp /\ cp <= 159
    \/ IsSurrogate(cp)
    \/ Hex4(14, 0, 0, 0) <= cp /\ cp <= Hex4(15, 8, 15, 15)
    \/ cp \in {Hex4(15, 14, 15, 14), Hex4(15, 14, 15, 15),
               Hex4(15, 15, 0, 0), Hex4(15, 15, 11, 15),
               Hex4(15, 15, 12, 1), Hex4(15, 15, 14, 15),
               Hex4(15, 15, 15, 14), Hex4(15, 15, 15, 15)}

\* _strip_unsafe_controls(s)[0]
strip_unsafe_controls(s) ==
    SelectSeq(s, LAMBDA ch : (ch = 10 \/ ch = 9 \/ ~CategoryC(ch))
                             /\ ch \notin ZERO_WIDTH)

\* _postprocess(s, normalize="NFC", strip_controls): the text and the
\* PostprocessResult.  NFC leaves every string of these code points as it is.
postprocess(s, strip_controls) ==
    LET s1 == normalize_newlines(s)
        s2 == IF strip_controls THEN strip_unsafe_controls(s1) ELSE s1
    IN  [text |-> s2,
         newlines_normalized |-> s1 # s,
         controls_stripped |-> Len(s1) - Len(s2),
         unicode_normalized |-> FALSE]

\* ---- mojibake repair
RECURSIVE MojiMatches(_, _)
\* len(_MOJI_REGEX.findall(s)) from position i: leftmost matches, the
\* alternatives tried in the order written.
MojiMatches(s, i) ==
    LET n == Len(s)
        ch == s[i]
        nxt == i + 1 <= n
    IN
    IF i > n THEN 0
    ELSE IF 192 <= ch /\ ch <= 255 /\ nxt /\ 128 <= s[i + 1] /\ s[i + 1] <= 255
    THEN 1 + MojiMatches(s, i + 2)
    ELSE IF ch \in {195, 226} /\ nxt /\ s[i + 1] # 10
    THEN 1 + MojiMatches(s, i + 2)
    ELSE IF ch = 194 \/ ch = ReplacementChar
    THEN 1 + MojiMatches(s, i + 1)
    ELSE MojiMatches(s, i + 1)

mojibake_score(s) == MojiMatches(s, 1)

\* _maybe_repair_cp1252_utf8(text_cp1252)
maybe_repair_cp1252_utf8(s) ==
    IF mojibake_score(s) = 0 THEN s
    ELSE LET raw == Cp1252Encode(s) IN
         IF ~raw.ok THEN s
         ELSE LET fixed == Utf8Decode(raw.text) IN
              IF ~fixed.ok THEN s
              ELSE LET orig_score == IF mojibake_score(s) > 1
                                     THEN mojibake_score(s) ELSE 1
                   IN  IF mojibake_score(fixed.text) * 3 < orig_score
                       THEN fixed.text ELSE s

\* ---- decode_bytes
DecodeProvenance ==
    [decode_replacements |-> FALSE, mojibake_repaired |-> FALSE,
     controls_stripped |-> 0, newlines_normalized |-> FALSE,
     unicode_normalized |-> FALSE]

DecodedText(s, enc, had, prov) ==
    [text |-> s, encoding |-> enc, had_replacement |-> had,
     provenance |-> prov]

\* _finalize(text, encoding, decode_replacements=, mojibake_repaired=)
finalize(s, enc, decode_replacements, mojibake_repaired, o) ==
    LET post == postprocess(s, o.strip_controls) IN
    DecodedText(post.text, enc, decode_replacements,
                [decode_replacements |-> decode_replacements,
                 mojibake_repaired |-> mojibake_repaired,
                 controls_stripped |-> post.controls_stripped,
                 newlines_normalized |-> post.newlines_normalized,
                 unicode_normalized |-> post.unicode_normalized])

\* 3) cp1252, else latin-1 with errors="replace"; optional mojibake repair
DecodeFallback(d, o) ==
    LET strict == Cp1252(d)
        text1252 == IF strict.ok THEN strict.text ELSE d
        enc_used == IF strict.ok THEN "cp1252" ELSE "latin-1"
        decode_replacements ==
            ~strict.ok /\ \E i \in 1..Len(text1252) :
                              text1252[i] = ReplacementChar
        repaired == IF o.fix_mojibake
                    THEN maybe_repair_cp1252_utf8(text1252) ELSE text1252
    IN  finalize(repaired, enc_used, decode_replacements,
                 repaired # text1252, o)

\* 2b) the UTF-16 guess on data[:4096], then 3)
DecodeGuess(d, o) ==
    LET guess_ == guess_utf16_endian_from_nuls(
                      SubSeq(d, 1, IF Len(d) < 4096 THEN Len(d) ELSE 4096))
        r == Decode(guess_, d)
    IN  IF guess_ # "none" /\ r.ok
        THEN finalize(r.text, guess_, FALSE, FALSE, o)
        ELSE DecodeFallback(d, o)

\* 2) UTF-8 first, then 2b)
DecodeUtf8(d, o) ==
    LET r == Utf8Decode(d) IN
    IF r.ok THEN finalize(r.text, "utf-8", FALSE, FALSE, o)
    ELSE DecodeGuess(d, o)

decode_bytes(d, o) ==
    IF d = <<>> THEN DecodedText(<<>>, "utf-8", FALSE, DecodeProvenance)
    ELSE LET enc == detect_bom(d)
             r == Decode(enc, d)
         IN  IF enc # "none" /\ r.ok
             THEN finalize(r.text, enc, FALSE, FALSE, o)
             ELSE DecodeUtf8(d, o)

\* ---- the calls
DecodeStart ==
    /\ data \in DecodeInputs
    /\ decodeOpts \in DecodeOptions
    /\ decoded = NoDecoded
    /\ guess = "unset"

\* decoded = decode_bytes(data, **decodeOpts)
DecodeBytes ==
    /\ decoded = NoDecoded
    /\ decoded' = decode_bytes(data, decodeOpts)
    /\ UNCHANGED <<data, decodeOpts, guess>>
    /\ UNCHANGED besidesDecode

NextDecode == DecodeBytes

\* A sample of NUL and non-NUL bytes handed to the guess alone.
GuessStart ==
    /\ data \in SeqsUpTo({0, Hex2(6, 1)}, MaxSample)
    /\ decodeOpts = [strip_controls |-> TRUE, fix_mojibake |-> TRUE]
    /\ decoded = NoDecoded
    /\ guess = "unset"

\* guess = _guess_utf16_endian_from_nuls(data)
GuessEndian ==
    /\ guess = "unset"
    /\ guess' = guess_utf16_endian_from_nuls(data)
    /\ UNCHANGED <<data, decodeOpts, decoded>>
    /\ UNCHANGED besidesDecode

NextGuess == GuessEndian

InitDecode ==
    /\ PipeIdle
    /\ QCIdle
    /\ FinIdle
    /\ MinhashIdle
    /\ ChunkIdle
    /\ DecodeStart
    /\ RecordsIdle
    /\ BuilderIdle
    /\ AccelIdle
    /\ ConvertIdle
    /\ DownloadIdle

SpecDecode == InitDecode /\ [][NextDecode]_vars

InitGuess ==
    /\ PipeIdle
    /\ QCIdle
    /\ FinIdle
    /\ MinhashIdle
    /\ ChunkIdle
    /\ GuessStart
    /\ RecordsIdle
    /\ BuilderIdle
    /\ AccelIdle
    /\ ConvertIdle
    /\ DownloadIdle

SpecGuess == InitGuess /\ [][NextGuess]_vars

\* ---------------------------------------------------------------- C21, C29
HasReplacement(s) == \E i \in 1..Len(s) : s[i] = ReplacementChar

FlagSet(r) ==
    \/ r.had_replacement
    \/ r.provenance.decode_replacements
    \/ r.provenance.mojibake_repaired

Returned == decoded # NoDecoded

\* The bytes hold U+FFFD itself, written in the encoding enc.
EncodesReplacement(d, enc) ==
    \E i \in 1..Len(d) :
        \/ /\ enc \in {"utf-8", "utf-8-sig"}
           /\ i + 2 <= Len(d)
           /\ SubSeq(d, i, i + 2) = <<239, 191, 189>>
        \/ /\ enc \in {"utf-16-le", "utf-32-le"}
           /\ i + 1 <= Len(d)
           /\ SubSeq(d, i, i + 1) = <<253, 255>>
        \/ /\ enc \in {"utf-16-be", "utf-32-be"}
           /\ i + 1 <= Len(d)
           /\ SubSeq(d, i, i + 1) = <<255, 253>>

\* C21 as stated: the text returned by decode_bytes(b) contains U+FFFD only
\* when had_replacement (decode_replacements) or mojibake_repaired is set.
C21_ReplacementOnlyWhenFlagged ==
    (Returned /\ HasReplacement(decoded.text)) => FlagSet(decoded)

\* C21 amended: the text returned by decode_bytes(b) contains U+FFFD only
\* when one of the flags is set or b itself holds an encoded U+FFFD in the
\* encoding the result reports; decoding never puts a U+FFFD into the text
\* unflagged.
C21_ReplacementFlaggedOrLiteral ==
    (Returned /\ HasReplacement(decoded.text)) =>
        FlagSet(decoded) \/ EncodesReplacement(data, decoded.encoding)

\* b"\xef\xbf\xbd" decoded: the literal U+FFFD is in the text, no flag set.
C21_Witness ==
    /\ Returned
    /\ data = <<239, 191, 189>>
    /\ decoded.encoding = "utf-8"
    /\ HasReplacement(decoded.text)
    /\ ~FlagSet(decoded)

EvenNuls(s) == Cardinality({i \in 1..Len(s) : i % 2 = 1 /\ s[i] = 0})
OddNuls(s) == Cardinality({i \in 1..Len(s) : i % 2 = 0 /\ s[i] = 0})

\* total_nuls >= max(4, len(sample) / 64)
EnoughNuls(s) ==
    /\ EvenNuls(s) + OddNuls(s) >= 4
    /\ (EvenNuls(s) + OddNuls(s)) * 64 >= Len(s)

\* C29: _guess_utf16_endian_from_nuls returns an endianness exactly when
\* there are enough NULs and the NUL count on one parity is at least twice
\* the count on the other (be when the even offsets dominate, le when the
\* odd ones do), and None otherwise; so a sample with even_nuls =
\* 2 * odd_nuls > 0 and enough NULs is classified.
C29_AtLeastTwice ==
    guess # "unset" =>
        guess = IF EnoughNuls(data) /\ EvenNuls(data) >= 2 * OddNuls(data)
                THEN "utf-16-be"
                ELSE IF EnoughNuls(data) /\ OddNuls(data) >= 2 * EvenNuls(data)
                THEN "utf-16-le"
                ELSE "none"

(***************************************************************************)
(* Record assembly: build_record of records.py and its caller              *)
(* extract_pdf_records of pdfio.py.  A dict is a function on its keys; the *)
(* values are strings, None being PyNone.  rel_path is "doc.pdf".          *)
(***************************************************************************)
MaxPages == 2

\* The keys build_record writes itself.
CanonicalKeys == {"source", "repo", "path", "license", "lang", "chunk_id",
                  "n_chunks", "encoding", "had_replacement", "sha256",
                  "tokens", "bytes"}

\* Keys an extra_meta may carry: those of extract_pdf_records, and two
\* canonical ones.
ExtraKeys == {"kind", "page", "pdf_meta", "license", "path"}

Dicts(K, V) == UNION {[D -> V] : D \in SUBSET K}

Optional(S) == {PyNone} \cup S

\* build_record(text=, rel_path="doc.pdf", repo_full_name=, repo_url=,
\*              license_id=, lang=, chunk_id=, n_chunks=, extra_meta=)
\* An extra_meta of None is the empty dict: `if extra_meta:` skips both.
BuildCalls ==
    [fn : {"build_record"},
     text : {"t"},
     repo_full_name : Optional({"o/r"}),
     repo_url : Optional({"https://example.org/r"}),
     license_id : Optional({"MIT"}),
     lang : Optional({"Python"}),
     chunk_id : Optional({"2"}),
     n_chunks : Optional({"2"}),
     extra_meta : Dicts(ExtraKeys, Optional({"extra"}))]

\* extract_pdf_records(data, rel_path="doc.pdf", license_id=, mode=): the
\* PDF has n_pages pages, an empty or non-empty metadata dict, and may fail
\* to decrypt; in "chunk" mode chunk_text returns n_chunks chunks.
PdfCalls ==
    [fn : {"extract_pdf_records"},
     license_id : Optional({"MIT"}),
     mode : {"page", "chunk"},
     n_pages : 0..MaxPages,
     n_chunks : 0..MaxPages,
     pdf_meta : {"{}", "{title}"},
     decrypt_fails : BOOLEAN]

Truthy(v) == v # PyNone /\ v # "" /\ v # "{}"

\* a or b
Or(a, b) == IF Truthy(a) THEN a ELSE b

\* {k: v for k, v in d.items() if v is not None}
DropNone(d) == [k \in {x \in DOMAIN d : d[x] # PyNone} |-> d[k]]

\* for k2, v2 in extra_meta.items(): if k2 in meta: continue; meta[k2] = v2
MergeExtra(meta, extra) ==
    [k \in DOMAIN meta \cup DOMAIN extra |->
        IF k \in DOMAIN meta THEN meta[k] ELSE extra[k]]

\* The meta dict as first assembled (records.py:296-311).
CanonicalMeta(c) ==
    [k \in CanonicalKeys |->
        CASE k = "source" ->
                 Or(c.repo_url,
                    IF Truthy(c.repo_full_name)
                    THEN "https://github.com/" \o c.repo_full_name
                    ELSE PyNone)
          [] k = "repo" -> c.repo_full_name
          [] k = "path" -> "doc.pdf"
          [] k = "license" -> c.license_id
          [] k = "lang" -> Or(c.lang, "Pdf")
          [] k = "chunk_id" -> Or(c.chunk_id, "1")
          [] k = "n_chunks" -> Or(c.n_chunks, "1")
          [] k = "encoding" -> "utf-8"
          [] k = "had_replacement" -> "False"
          [] k = "sha256" -> "sha256(" \o c.text \o ")"
          [] k = "tokens" -> "tokens(" \o c.text \o ")"
          [] k = "bytes" -> "len(" \o c.text \o ")"]

build_record(c) ==
    LET meta == DropNone(CanonicalMeta(c)) IN
    [text |-> c.text,
     meta |-> IF DOMAIN c.extra_meta # {}
              THEN MergeExtra(meta, c.extra_meta) ELSE meta]

\* The build_record call extract_pdf_records makes for record i of n.
PdfBuild(c, i, n, extra) ==
    build_record([fn |-> "build_record", text |-> "t",
                  repo_full_name |-> PyNone, repo_url |-> PyNone,
                  license_id |-> c.license_id, lang |-> PyNone,
                  chunk_id |-> ToString(i), n_chunks |-> ToString(n),
                  extra_meta |-> extra])

extract_pdf_records(c) ==
    LET pdf_meta_or_none == Or(c.pdf_meta, PyNone) IN
    IF c.decrypt_fails THEN <<>>
    ELSE IF c.mode = "page"
    THEN [i \in 1..c.n_pages |->
             PdfBuild(c, i, c.n_pages,
                      [k \in {"kind", "page", "n_pages", "pdf_meta"} |->
                          CASE k = "kind" -> "pdf"
                            [] k = "page" -> ToString(i)
                            [] k = "n_pages" -> ToString(c.n_pages)
                            [] k = "pdf_meta" -> pdf_meta_or_none])]
    ELSE [i \in 1..c.n_chunks |->
             PdfBuild(c, i, c.n_chunks,
                      [k \in {"kind", "pdf_meta"} |->
                          IF k = "kind" THEN "pdf" ELSE pdf_meta_or_none])]

RecordsStart ==
    /\ recCall \in BuildCalls \cup PdfCalls
    /\ records = <<>>
    /\ recPc = "call"

\* records = [build_record(**recCall)]
BuildRecord ==
    /\ recPc = "call"
    /\ recCall.fn = "build_record"
    /\ records' = <<build_record(recCall)>>
    /\ recPc' = "returned"
    /\ UNCHANGED recCall
    /\ UNCHANGED besidesRecords

\* records = extract_pdf_records(**recCall)
ExtractPdfRecords ==
    /\ recPc = "call"
    /\ recCall.fn = "extract_pdf_records"
    /\ records' = extract_pdf_records(recCall)
    /\ recPc' = "returned"
    /\ UNCHANGED recCall
    /\ UNCHANGED besidesRecords

NextRecords == BuildRecord \/ ExtractPdfRecords

InitRecords ==
    /\ PipeIdle
    /\ QCIdle
    /\ FinIdle
    /\ MinhashIdle
    /\ ChunkIdle
    /\ DecodeIdle
    /\ RecordsStart
    /\ BuilderIdle
    /\ AccelIdle
    /\ ConvertIdle
    /\ DownloadIdle

SpecRecords == InitRecords /\ [][NextRecords]_vars

\* ---------------------------------------------------------------------- C22
\* C22: every record returned by build_record has no meta key whose value
\* is null, whatever the inputs (extra_meta entries with null values
\* included, as extract_pdf_records passes for an empty pdf_meta), and an
\* extra_meta key never replaces a canonical key already present in meta.
C22_NoNullMeta ==
    recPc = "returned" =>
        \A i \in 1..Len(records) :
            /\ \A k \in DOMAIN records[i].meta : records[i].meta[k] # PyNone
            /\ recCall.fn = "build_record" =>
                   \A k \in CanonicalKeys :
                       CanonicalMeta(recCall)[k] # PyNone =>
                           /\ k \in DOMAIN records[i].meta
                           /\ records[i].meta[k] = CanonicalMeta(recCall)[k]

(***************************************************************************)
(* Plan building: build_pipeline_plan and _prepare_qc of core/builder.py,  *)
(* make_qc_scorer of core/factories.py.  Live objects are named by         *)
(* strings, None is PyNone, tuples are sequences.  The config passes       *)
(* cfg.validate(), the registries build one object per declarative spec,   *)
(* and the dataset card is enabled.  core/config.py is not part of the     *)
(* sources: QCMode and normalize_mode follow the specification.            *)
(***************************************************************************)
MaxSpecs == 1

\* QCMode: OFF | POST | INLINE | ADVISORY
QCModes == {"OFF", "POST", "INLINE", "ADVISORY"}

\* QCConfig.normalize_mode(): the mode as a QCMode member.
normalize_mode(c) == c.qc_mode

\* The runtime-only fields of a config, and a live object for each.
RuntimeFields == {"http_client", "qc_scorer", "file_extractor", "sources",
                  "sinks", "bytes_handlers", "extractors"}

Baked(c, f) ==
    IF f \in {"http_client", "qc_scorer", "file_extractor"}
    THEN [c EXCEPT ![f] = "baked_" \o f]
    ELSE [c EXCEPT ![f] = <<"baked_" \o f>>]

\* The configs handed in: declarative, or with one runtime field baked in.
BuilderConfigs ==
    LET declarative ==
            {[PlainConfig EXCEPT !.qc_enabled = e, !.qc_mode = m,
                                 !.write_csv = w, !.source_specs = so,
                                 !.sink_specs = si] :
                e \in BOOLEAN, m \in QCModes, w \in BOOLEAN,
                so \in 0..MaxSpecs, si \in 0..MaxSpecs}
    IN  declarative \cup {Baked(c, f) : c \in declarative, f \in RuntimeFields}

\* PipelineOverrides (None is the same as no field set); bytes_handlers is
\* None, an empty sequence or a sequence of one pair.
BuilderOverrides ==
    [http_client : {PyNone, "override_client"},
     qc_scorer : {PyNone, "override_scorer"},
     file_extractor : {PyNone, "override_extractor"},
     bytes_handlers : {PyNone, "()", "(pair,)"}]

TupleOf(v) == IF v = "(pair,)" THEN <<"override_handler">> ELSE <<>>

Objects(name, n) == [i \in 1..n |-> name \o ToString(i)]

\* _assert_runtime_free_spec(cfg) raises ValueError
RuntimeBaked(c) ==
    \/ c.sources # <<>>
    \/ c.sinks # <<>>
    \/ c.http_client # PyNone
    \/ c.qc_scorer # PyNone
    \/ c.file_extractor # PyNone
    \/ c.extractors # <<>>
    \/ c.bytes_handlers # <<>>

\* QualityScorerRegistry.build(options, factory_id=...)
RegistryBuild(env) == IF env.registry_builds THEN "registry_scorer" ELSE PyNone

\* make_qc_scorer(qc_cfg, new_instance=False, scorer_registry=...): the
\* scorer returned and the config as it leaves it.
make_qc_scorer(c, env) ==
    IF ~c.qc_enabled THEN [scorer |-> PyNone, cfg |-> c]
    ELSE IF c.qc_scorer # PyNone THEN [scorer |-> c.qc_scorer, cfg |-> c]
    ELSE IF RegistryBuild(env) = PyNone THEN [scorer |-> PyNone, cfg |-> c]
    ELSE [scorer |-> RegistryBuild(env),
          cfg |-> [c EXCEPT !.qc_scorer = RegistryBuild(env)]]

Hook(type, scorer, enforce_drops) ==
    [type |-> type, scorer |-> scorer, enforce_drops |-> enforce_drops]

QCOff(c) == [c EXCEPT !.qc_enabled = FALSE, !.qc_mode = "OFF"]

QCPreparationResult(c, hooks, scorer_for_csv, post_qc_scorer) ==
    [raised |-> FALSE, cfg |-> c, hooks |-> hooks,
     scorer_for_csv |-> scorer_for_csv, post_qc_scorer |-> post_qc_scorer]

\* Mutant of prepare_qc: advisory mode enforces drops too.
prepare_qc_enforcing(c, ov, env) ==
    LET mode == normalize_mode(c)
        made == make_qc_scorer(c, env)
        qc_scorer == IF ov.qc_scorer # PyNone THEN ov.qc_scorer
                     ELSE made.scorer
        after == IF ov.qc_scorer # PyNone THEN c ELSE made.cfg
    IN
    IF ~c.qc_enabled \/ mode = "OFF"
    THEN QCPreparationResult([QCOff(c) EXCEPT !.qc_scorer = PyNone],
                             <<>>, PyNone, PyNone)
    ELSE IF mode \in {"INLINE", "ADVISORY"}
    THEN IF qc_scorer = PyNone
         THEN [raised |-> TRUE, cfg |-> after, hooks |-> <<>>,
               scorer_for_csv |-> PyNone, post_qc_scorer |-> PyNone]
         ELSE QCPreparationResult(
                  [after EXCEPT !.qc_scorer = PyNone],
                  <<Hook("InlineQCHook", qc_scorer, TRUE)>>,
                  IF c.write_csv THEN qc_scorer ELSE PyNone, PyNone)
    ELSE IF qc_scorer = PyNone
         THEN QCPreparationResult([QCOff(after) EXCEPT !.qc_scorer = PyNone],
                                  <<>>, PyNone, PyNone)
         ELSE QCPreparationResult(
                  [after EXCEPT !.qc_scorer = PyNone],
                  <<Hook("PostQCHook", qc_scorer, FALSE)>>,
                  PyNone, qc_scorer)

\* _prepare_qc(cfg, scorer_registry=..., overrides=ov)
prepare_qc(c, ov, env) ==
    LET mode == normalize_mode(c)
        made == make_qc_scorer(c, env)
        qc_scorer == IF ov.qc_scorer # PyNone THEN ov.qc_scorer
                     ELSE made.scorer
        after == IF ov.qc_scorer # PyNone THEN c ELSE made.cfg
    IN
    IF ~c.qc_enabled \/ mode = "OFF"
    THEN QCPreparationResult([QCOff(c) EXCEPT !.qc_scorer = PyNone],
                             <<>>, PyNone, PyNone)
    ELSE IF mode \in {"INLINE", "ADVISORY"}
    THEN IF qc_scorer = PyNone
         THEN [raised |-> TRUE, cfg |-> after, hooks |-> <<>>,
               scorer_for_csv |-> PyNone, post_qc_scorer |-> PyNone]
         ELSE QCPreparationResult(
                  [after EXCEPT !.qc_scorer = PyNone],
                  <<Hook("InlineQCHook", qc_scorer, mode = "INLINE")>>,
                  IF c.write_csv THEN qc_scorer ELSE PyNone, PyNone)
    ELSE IF qc_scorer = PyNone
         THEN QCPreparationResult([QCOff(after) EXCEPT !.qc_scorer = PyNone],
                                  <<>>, PyNone, PyNone)
         ELSE QCPreparationResult(
                  [after EXCEPT !.qc_scorer = PyNone],
                  <<Hook("PostQCHook", qc_scorer, FALSE)>>,
                  PyNone, qc_scorer)

\* _strip_runtime_from_spec(cfg)
strip_runtime_from_spec(c) ==
    [c EXCEPT !.http_client = PyNone, !.sources = <<>>, !.sinks = <<>>,
              !.bytes_handlers = <<>>, !.file_extractor = PyNone,
              !.extractors = <<>>, !.qc_scorer = PyNone]

BuilderStart ==
    /\ bcfg \in BuilderConfigs
    /\ boverrides \in BuilderOverrides
    /\ benv \in [entry : {"build_pipeline_plan", "_prepare_qc"},
                 registry_builds : BOOLEAN]
    /\ benv.entry = "_prepare_qc" =>
           /\ bcfg.qc_scorer # PyNone \/ ~RuntimeBaked(bcfg)
           /\ boverrides.http_client = PyNone
           /\ boverrides.file_extractor = PyNone
           /\ boverrides.bytes_handlers = PyNone
    /\ bprep = NoPrep
    /\ bplan = NoPlan
    /\ bpc = "start"

\* cfg = deepcopy(config); _assert_runtime_free_spec(cfg)
AssertRuntimeFree ==
    /\ bpc = "start"
    /\ benv.entry = "build_pipeline_plan"
    /\ bpc' = IF RuntimeBaked(bcfg) THEN "raised" ELSE "http"
    /\ UNCHANGED <<bcfg, boverrides, benv, bprep, bplan>>
    /\ UNCHANGED besidesBuilder

\* http_client = _prepare_http(cfg, overrides=overrides)
PrepareHttp ==
    /\ bpc = "http"
    /\ bprep' = [bprep EXCEPT !.http_client =
                    IF boverrides.http_client # PyNone
                    THEN boverrides.http_client ELSE "built_client"]
    /\ bpc' = "sources"
    /\ UNCHANGED <<bcfg, boverrides, benv, bplan>>
    /\ UNCHANGED besidesBuilder

\* sources = _prepare_sources(cfg, source_registry, ctx=source_ctx)
PrepareSourceObjects ==
    /\ bpc = "sources"
    /\ bprep' = [bprep EXCEPT !.sources = Objects("source", bcfg.source_specs)]
    /\ bpc' = IF bcfg.sources # <<>> THEN "raised" ELSE "sinks"
    /\ UNCHANGED <<bcfg, boverrides, benv, bplan>>
    /\ UNCHANGED besidesBuilder

\* sinks_res = _prepare_sinks(cfg, sink_registry, ctx=sink_ctx)
PrepareSinkObjects ==
    /\ bpc = "sinks"
    /\ bprep' = [bprep EXCEPT !.sinks = Objects("sink", bcfg.sink_specs)]
    /\ bpc' = IF bcfg.sinks # <<>> THEN "raised" ELSE "pipeline"
    /\ UNCHANGED <<bcfg, boverrides, benv, bplan>>
    /\ UNCHANGED besidesBuilder

\* pipe_res = _prepare_pipeline(cfg, bytes_registry=..., overrides=overrides)
PreparePipeline ==
    /\ bpc = "pipeline"
    /\ bprep' = [bprep EXCEPT
           !.bytes_handlers =
               IF boverrides.bytes_handlers # PyNone
               THEN TupleOf(boverrides.bytes_handlers)
               ELSE <<"registry_handler">>,
           !.file_extractor =
               IF boverrides.file_extractor # PyNone
               THEN boverrides.file_extractor ELSE "DefaultExtractor"]
    /\ bpc' = "qc"
    /\ UNCHANGED <<bcfg, boverrides, benv, bplan>>
    /\ UNCHANGED besidesBuilder

\* qc_res = _prepare_qc(cfg, scorer_registry=..., overrides=overrides), from
\* build_pipeline_plan or called by itself.
PrepareQC ==
    /\ \/ bpc = "qc"
       \/ bpc = "start" /\ benv.entry = "_prepare_qc"
    /\ LET res == prepare_qc(bcfg, boverrides, benv) IN
       /\ bcfg' = res.cfg
       /\ bprep' = [bprep EXCEPT !.hooks = res.hooks,
                                 !.scorer_for_csv = res.scorer_for_csv,
                                 !.post_qc_scorer = res.post_qc_scorer]
       /\ bpc' = IF res.raised THEN "raised"
                 ELSE IF bpc = "qc" THEN "runtime" ELSE "qc_returned"
    /\ UNCHANGED <<boverrides, benv, bplan>>
    /\ UNCHANGED besidesBuilder

\* PipelineRuntime(...) of the prepared objects and the lifecycle hooks
PipelineRuntime(prep) ==
    [http_client |-> prep.http_client,
     sources |-> prep.sources,
     sinks |-> prep.sinks,
     file_extractor |-> prep.file_extractor,
     bytes_handlers |-> prep.bytes_handlers,
     lifecycle_hooks |->
         prep.hooks \o <<Hook("RunSummaryHook", PyNone, FALSE),
                         Hook("DatasetCardHook", PyNone, FALSE)>>,
     qc_scorer_for_csv |-> prep.scorer_for_csv,
     post_qc_scorer |-> prep.post_qc_scorer]

\* Mutant of ReturnPlan: the prepared objects are wired onto the spec.
ReturnPlanWired ==
    /\ bpc = "runtime"
    /\ bcfg' = [bcfg EXCEPT !.http_client = bprep.http_client,
                            !.sources = bprep.sources,
                            !.sinks = bprep.sinks]
    /\ bplan' = [spec |-> bcfg', runtime |-> PipelineRuntime(bprep)]
    /\ bpc' = "returned"
    /\ UNCHANGED <<boverrides, benv, bprep>>
    /\ UNCHANGED besidesBuilder

\* cfg.sinks = ..., cfg.qc = ..., the lifecycle hooks, PipelineRuntime(...),
\* _strip_runtime_from_spec(cfg), return PipelinePlan(spec=cfg, runtime=...)
ReturnPlan ==
    /\ bpc = "runtime"
    /\ bcfg' = strip_runtime_from_spec(bcfg)
    /\ bplan' = [spec |-> bcfg', runtime |-> PipelineRuntime(bprep)]
    /\ bpc' = "returned"
    /\ UNCHANGED <<boverrides, benv, bprep>>
    /\ UNCHANGED besidesBuilder

NextBuilder ==
    \/ AssertRuntimeFree
    \/ PrepareHttp
    \/ PrepareSourceObjects
    \/ PrepareSinkObjects
    \/ PreparePipeline
    \/ PrepareQC
    \/ ReturnPlan

InitBuilder ==
    /\ PipeIdle
    /\ QCIdle
    /\ FinIdle
    /\ MinhashIdle
    /\ ChunkIdle
    /\ DecodeIdle
    /\ RecordsIdle
    /\ BuilderStart
    /\ AccelIdle
    /\ ConvertIdle
    /\ DownloadIdle

SpecBuilder == InitBuilder /\ [][NextBuilder]_vars

\* ----------------------------------------------------------------- C23, C24
\* No runtime object is held by the config c.
RuntimeFree(c) ==
    /\ c.http_client = PyNone
    /\ c.qc_scorer = PyNone
    /\ c.file_extractor = PyNone
    /\ c.sources = <<>>
    /\ c.sinks = <<>>
    /\ c.bytes_handlers = <<>>
    /\ c.extractors = <<>>

\* C23: for every accepted config and every overrides value the returned
\* plan.spec holds no runtime object (http.client, qc.scorer and
\* pipeline.file_extractor are None; sources.sources, sinks.sinks,
\* pipeline.bytes_handlers and pipeline.extractors are empty), and the live
\* sources, sinks, client, extractor, handlers and scorers are those of
\* plan.runtime.
C23_SpecRuntimeFree ==
    bpc = "returned" =>
        /\ RuntimeFree(bplan.spec)
        /\ bplan.spec = bcfg
        /\ Len(bplan.runtime.sources) = bcfg.source_specs
        /\ Len(bplan.runtime.sinks) = bcfg.sink_specs
        /\ bplan.runtime.http_client # PyNone
        /\ bplan.runtime.file_extractor # PyNone
        /\ boverrides.http_client # PyNone =>
               bplan.runtime.http_client = boverrides.http_client
        /\ boverrides.file_extractor # PyNone =>
               bplan.runtime.file_extractor = boverrides.file_extractor
        /\ boverrides.bytes_handlers # PyNone =>
               bplan.runtime.bytes_handlers = TupleOf(boverrides.bytes_handlers)
        /\ \A i \in 1..Len(bplan.runtime.lifecycle_hooks) :
               bplan.runtime.lifecycle_hooks[i].type
                   \in {"InlineQCHook", "PostQCHook"} =>
                   bplan.runtime.lifecycle_hooks[i].scorer # PyNone

\* A plan built with a registry scorer for POST QC, a source, a sink and an
\* overriding client.
C23_Witness ==
    /\ bpc = "returned"
    /\ bplan.runtime.post_qc_scorer = "registry_scorer"
    /\ bplan.runtime.http_client = "override_client"
    /\ bplan.runtime.sources # <<>>
    /\ bplan.runtime.sinks # <<>>
    /\ RuntimeFree(bplan.spec)

\* A step is the call of _prepare_qc.
IsPrepareQC ==
    /\ bpc = "qc" \/ (bpc = "start" /\ benv.entry = "_prepare_qc")
    /\ bpc' # bpc

\* A scorer is available: an override, one on the config, or the registry's.
ScorerAvailable ==
    \/ boverrides.qc_scorer # PyNone
    \/ bcfg.qc_scorer # PyNone
    \/ benv.registry_builds

QCTurnedOff ==
    /\ bprep'.hooks = <<>>
    /\ ~bcfg'.qc_enabled
    /\ bcfg'.qc_mode = "OFF"
    /\ bpc' # "raised"

OneHook(type) ==
    /\ bpc' # "raised"
    /\ Len(bprep'.hooks) = 1
    /\ bprep'.hooks[1].type = type
    /\ bprep'.hooks[1].scorer # PyNone

C24_Step ==
    IsPrepareQC =>
        IF ~bcfg.qc_enabled \/ bcfg.qc_mode = "OFF" THEN QCTurnedOff
        ELSE IF bcfg.qc_mode \in {"INLINE", "ADVISORY"}
        THEN IF ScorerAvailable
             THEN /\ OneHook("InlineQCHook")
                  /\ bprep'.hooks[1].enforce_drops = (bcfg.qc_mode = "INLINE")
             ELSE bpc' = "raised" /\ bprep'.hooks = <<>>
        ELSE IF ScorerAvailable THEN OneHook("PostQCHook")
             ELSE QCTurnedOff

\* C24: _prepare_qc maps the QC configuration to hooks: disabled or OFF
\* gives no hooks, enabled false and mode OFF; INLINE or ADVISORY with no
\* scorer available raises and builds no hook; INLINE or ADVISORY with a
\* scorer gives exactly one InlineQCHook whose controller enforces drops
\* only for INLINE; POST with a scorer gives exactly one PostQCHook; POST
\* with no scorer gives no hooks and turns QC off without raising.
C24_ModeToHooks == [][C24_Step]_vars

\* _prepare_qc has returned an advisory InlineQCHook that does not enforce
\* drops, built on the registry's scorer.
C24_Witness ==
    /\ bpc \in {"qc_returned", "runtime"}
    /\ bcfg.qc_mode = "ADVISORY"
    /\ Len(bprep.hooks) = 1
    /\ bprep.hooks[1] = Hook("InlineQCHook", "registry_scorer", FALSE)

(***************************************************************************)
(* Accelerator loading: sievio/core/accel.py.  _ACCEL_CACHE is a function  *)
(* on the cached domains; what importlib.import_module does is chosen at   *)
(* every call (the package may be installed, removed or broken between     *)
(* calls).                                                                 *)
(***************************************************************************)
MaxAccelCalls == 4

Domains == {"qc", "text"}

\* Values of SIEVIO_ACCEL: unset, a disable value, a require value, a
\* prefer value, anything else.
EnvValues == {"", "0", "require", "1", "other"}

\* accel_mode()
accel_mode(raw) ==
    IF raw = "" THEN "auto"
    ELSE IF raw = "0" THEN "off"
    ELSE IF raw = "require" THEN "require"
    ELSE "auto"

\* importlib.import_module(f"sievio_accel.{domain}"): the module, a
\* ModuleNotFoundError naming the package or the domain module, a
\* ModuleNotFoundError naming something else, an ImportError, or another
\* exception.
ImportOutcomes == {"module", "not_installed", "missing_dependency",
                   "ImportError", "Exception"}

Loaded(domain, mode, result) ==
    [domain |-> domain, mode |-> mode, result |-> result]

CacheSet(domain, value) ==
    [d \in DOMAIN ACCEL_CACHE \cup {domain} |->
        IF d = domain THEN value ELSE ACCEL_CACHE[d]]

\* monkeypatch.setenv / delenv of SIEVIO_ACCEL
SetEnv(raw) ==
    /\ accelCalls < MaxAccelCalls
    /\ raw # SIEVIO_ACCEL
    /\ SIEVIO_ACCEL' = raw
    /\ accelCalls' = accelCalls + 1
    /\ UNCHANGED <<ACCEL_CACHE, ACCEL_FAILURES, accelLast>>
    /\ UNCHANGED besidesAccel

\* load_accel(domain), the import ending as `outcome` if it is reached
LoadAccel(domain, outcome) ==
    LET mode == accel_mode(SIEVIO_ACCEL) IN
    /\ accelCalls < MaxAccelCalls
    /\ accelCalls' = accelCalls + 1
    /\ UNCHANGED SIEVIO_ACCEL
    /\ IF mode = "off"
       THEN /\ accelLast' = Loaded(domain, mode, "None")
            /\ UNCHANGED <<ACCEL_CACHE, ACCEL_FAILURES>>
       ELSE IF domain \in DOMAIN ACCEL_CACHE
       THEN /\ accelLast' = Loaded(domain, mode, ACCEL_CACHE[domain])
            /\ UNCHANGED <<ACCEL_CACHE, ACCEL_FAILURES>>
       ELSE IF outcome = "module"
       THEN /\ ACCEL_CACHE' = CacheSet(domain, "module")
            /\ accelLast' = Loaded(domain, mode, "module")
            /\ UNCHANGED ACCEL_FAILURES
       ELSE IF outcome = "not_installed"
       THEN IF mode = "require"
            THEN /\ accelLast' = Loaded(domain, mode, "RuntimeError")
                 /\ UNCHANGED <<ACCEL_CACHE, ACCEL_FAILURES>>
            ELSE /\ ACCEL_CACHE' = CacheSet(domain, "None")
                 /\ accelLast' = Loaded(domain, mode, "None")
                 /\ UNCHANGED ACCEL_FAILURES
       ELSE /\ ACCEL_FAILURES' = ACCEL_FAILURES \cup {domain}
            /\ IF mode = "require"
               THEN /\ accelLast' = Loaded(domain, mode, "RuntimeError")
                    /\ UNCHANGED ACCEL_CACHE
               ELSE /\ ACCEL_CACHE' = CacheSet(domain, "None")
                    /\ accelLast' = Loaded(domain, mode, "None")
    /\ UNCHANGED besidesAccel

NextAccel ==
    \/ \E raw \in EnvValues : SetEnv(raw)
    \/ \E domain \in Domains, outcome \in ImportOutcomes :
           LoadAccel(domain, outcome)

InitAccel ==
    /\ PipeIdle
    /\ QCIdle
    /\ FinIdle
    /\ MinhashIdle
    /\ ChunkIdle
    /\ DecodeIdle
    /\ RecordsIdle
    /\ BuilderIdle
    /\ AccelIdle
    /\ ConvertIdle
    /\ DownloadIdle

SpecAccel == InitAccel /\ [][NextAccel]_vars

\* ---------------------------------------------------------------------- C25
\* C25: whenever the accel mode is 'require', load_accel(domain) returns a
\* loaded module or raises RuntimeError, never None, whatever load_accel
\* calls and SIEVIO_ACCEL changes came before (an earlier 'auto' call that
\* failed to import the same domain included).
C25_RequireNeverNone ==
    accelLast.mode = "require" => accelLast.result \in {"module", "RuntimeError"}

(***************************************************************************)
(* Bytes-handler dispatch: make_records_from_bytes of convert.py for one   *)
(* item.  A registered pair is described by what its sniff and its handler *)
(* do for the item.                                                        *)
(***************************************************************************)
MaxHandlers == 2

\* sniff(data, rel_path): True, False or an exception;
\* handler(data, rel_path, context, policy): records, nothing (None or an
\* empty iterable) or an exception.
HandlerPairs == [sniff : {"match", "no_match", "raise"},
                 run : {"records", "empty", "raise"}]

ConvertStart ==
    /\ BYTES_HANDLERS \in SeqsUpTo(HandlerPairs, MaxHandlers)
    /\ hIdx = 1
    /\ invoked = <<>>
    /\ convResult = NoResult

\* One iteration of `for sniff, handler in _BYTES_HANDLERS` (convert.py:
\* 192-203): the sniff, the handler when the sniff matched, the return when
\* the handler gave records; an exception of either is logged and the loop
\* goes on.
TryHandler ==
    /\ convResult = NoResult
    /\ hIdx \in 1..Len(BYTES_HANDLERS)
    /\ LET h == BYTES_HANDLERS[hIdx] IN
       /\ invoked' = IF h.sniff = "match" THEN Append(invoked, hIdx)
                     ELSE invoked
       /\ convResult' = IF h.sniff = "match" /\ h.run = "records"
                        THEN [by |-> "handler", handler |-> hIdx]
                        ELSE NoResult
    /\ hIdx' = hIdx + 1
    /\ UNCHANGED BYTES_HANDLERS
    /\ UNCHANGED besidesConvert

\* The loop is over: decode_bytes_robust and make_records_for_file
TextPath ==
    /\ convResult = NoResult
    /\ hIdx = Len(BYTES_HANDLERS) + 1
    /\ convResult' = [by |-> "text", handler |-> 0]
    /\ UNCHANGED <<BYTES_HANDLERS, hIdx, invoked>>
    /\ UNCHANGED besidesConvert

NextConvert == TryHandler \/ TextPath

InitConvert ==
    /\ PipeIdle
    /\ QCIdle
    /\ FinIdle
    /\ MinhashIdle
    /\ ChunkIdle
    /\ DecodeIdle
    /\ RecordsIdle
    /\ BuilderIdle
    /\ AccelIdle
    /\ ConvertStart
    /\ DownloadIdle

SpecConvert == InitConvert /\ [][NextConvert]_vars

\* ---------------------------------------------------------------------- C26
Matching == {i \in 1..Len(BYTES_HANDLERS) : BYTES_HANDLERS[i].sniff = "match"}

FirstMatch == CHOOSE i \in Matching : \A j \in Matching : i <= j

\* C26: in make_records_from_bytes the first registered handler whose sniff
\* matches is the only bytes handler invoked: if it returns records they
\* are the result, and if it raises, the text path produces the result
\* without any later handler being tried.
C26_FirstMatchOnly ==
    /\ \A k \in 1..Len(invoked) : invoked[k] = FirstMatch
    /\ (convResult # NoResult /\ Matching # {}) =>
           /\ BYTES_HANDLERS[FirstMatch].run = "records" =>
                  convResult = [by |-> "handler", handler |-> FirstMatch]
           /\ BYTES_HANDLERS[FirstMatch].run = "raise" =>
                  /\ convResult.by = "text"
                  /\ invoked = <<FirstMatch>>

(***************************************************************************)
(* Web PDF download: WebPdfListSource._download and iter_files of          *)
(* sources_webpdf.py.  A body is its length in bytes; urlopen and read     *)
(* either fail or deliver a body of some length, chosen at every attempt.  *)
(***************************************************************************)
MaxRetries == 2
MaxCap == 3
MaxUrls == 2

\* Lengths of the bodies a server may send: below, at and above the cap.
BodyLengths == 0..(MaxCap + 1)

RECURSIVE Pow2(_)
\* 2 ** n
Pow2(n) == IF n = 0 THEN 1 ELSE 2 * Pow2(n - 1)

Min(a, b) == IF a < b THEN a ELSE b

\* The streaming loop of _download (sources_webpdf.py:206-219): len(data)
\* for a body of `body` bytes under the cap.
Streamed(body, cap) == IF cap <= 0 THEN 0 ELSE Min(body, cap)

\* What an attempt can meet: urlopen or read raising, or a body.
Failures == [kind : {"error"}, body : {0}]
            \cup [kind : {"body"}, body : BodyLengths]

DownloadStart ==
    /\ dlCfg \in [retries : 0..MaxRetries, max_pdf_bytes : 0..MaxCap,
                  urls : 1..MaxUrls]
    /\ dlPc = "iter"
    /\ urlIdx = 0
    /\ attempt = 0
    /\ dl = NoDownload
    /\ yielded = <<>>

\* `for u in self.urls`: the next url, and the call self._download(u)
NextUrl ==
    /\ dlPc = "iter"
    /\ urlIdx < dlCfg.urls
    /\ urlIdx' = urlIdx + 1
    /\ attempt' = 0
    /\ dl' = NoDownload
    /\ dlPc' = "attempt"
    /\ UNCHANGED <<dlCfg, yielded>>
    /\ UNCHANGED besidesDownload

\* One iteration of `while attempt <= self.retries` whose body is read and
\* accepted: return data, headers
AttemptSucceeds(body) ==
    /\ dlPc = "attempt"
    /\ attempt <= dlCfg.retries
    /\ Streamed(body, dlCfg.max_pdf_bytes) # 0
    /\ Streamed(body, dlCfg.max_pdf_bytes) < dlCfg.max_pdf_bytes
    /\ dl' = [dl EXCEPT !.attempts = @ + 1, !.result = "data",
                        !.size = Streamed(body, dlCfg.max_pdf_bytes)]
    /\ dlPc' = "returned"
    /\ UNCHANGED <<dlCfg, urlIdx, attempt, yielded>>
    /\ UNCHANGED besidesDownload

\* Mutant of AttemptFails: the sleep comes before the test of the last
\* attempt.
AttemptFailsSleepsFirst(failure) ==
    /\ dlPc = "attempt"
    /\ attempt <= dlCfg.retries
    /\ \/ failure.kind = "error"
       \/ Streamed(failure.body, dlCfg.max_pdf_bytes) = 0
       \/ Streamed(failure.body, dlCfg.max_pdf_bytes) >= dlCfg.max_pdf_bytes
    /\ IF attempt >= dlCfg.retries
       THEN /\ dl' = [dl EXCEPT !.attempts = @ + 1, !.result = "RuntimeError",
                                !.sleeps = Append(@, Pow2(attempt))]
            /\ dlPc' = "raised"
            /\ UNCHANGED attempt
       ELSE /\ dl' = [dl EXCEPT !.attempts = @ + 1,
                                !.sleeps = Append(@, Pow2(attempt))]
            /\ attempt' = attempt + 1
            /\ UNCHANGED dlPc
    /\ UNCHANGED <<dlCfg, urlIdx, yielded>>
    /\ UNCHANGED besidesDownload

\* One iteration of `while attempt <= self.retries` that ends in the except
\* branch: urlopen or read raised ("error"), the body was empty, or it
\* reached the cap.  After the last attempt the loop is left and
\* RuntimeError raised; otherwise time.sleep(2 ** attempt); attempt += 1.
AttemptFails(failure) ==
    /\ dlPc = "attempt"
    /\ attempt <= dlCfg.retries
    /\ \/ failure.kind = "error"
       \/ Streamed(failure.body, dlCfg.max_pdf_bytes) = 0
       \/ Streamed(failure.body, dlCfg.max_pdf_bytes) >= dlCfg.max_pdf_bytes
    /\ IF attempt >= dlCfg.retries
       THEN /\ dl' = [dl EXCEPT !.attempts = @ + 1, !.result = "RuntimeError"]
            /\ dlPc' = "raised"
            /\ UNCHANGED attempt
       ELSE /\ dl' = [dl EXCEPT !.attempts = @ + 1,
                                !.sleeps = Append(@, Pow2(attempt))]
            /\ attempt' = attempt + 1
            /\ UNCHANGED dlPc
    /\ UNCHANGED <<dlCfg, urlIdx, yielded>>
    /\ UNCHANGED besidesDownload

\* iter_files: `except Exception: continue`
SkipUrl ==
    /\ dlPc = "raised"
    /\ dlPc' = "iter"
    /\ UNCHANGED <<dlCfg, urlIdx, attempt, dl, yielded>>
    /\ UNCHANGED besidesDownload

\* iter_files after _download returned: the body looks like a PDF (or
\* require_pdf is off) and the FileItem is yielded, or the url is skipped.
YieldFile(is_pdf) ==
    /\ dlPc = "returned"
    /\ yielded' = IF is_pdf THEN Append(yielded, urlIdx) ELSE yielded
    /\ dlPc' = "iter"
    /\ UNCHANGED <<dlCfg, urlIdx, attempt, dl>>
    /\ UNCHANGED besidesDownload

\* iter_files: the urls are exhausted
IterEnd ==
    /\ dlPc = "iter"
    /\ urlIdx = dlCfg.urls
    /\ dlPc' = "done"
    /\ UNCHANGED <<dlCfg, urlIdx, attempt, dl, yielded>>
    /\ UNCHANGED besidesDownload

NextDownload ==
    \/ NextUrl
    \/ \E body \in BodyLengths : AttemptSucceeds(body)
    \/ \E failure \in Failures : AttemptFails(failure)
    \/ SkipUrl
    \/ \E is_pdf \in BOOLEAN : YieldFile(is_pdf)
    \/ IterEnd

InitDownload ==
    /\ PipeIdle
    /\ QCIdle
    /\ FinIdle
    /\ MinhashIdle
    /\ ChunkIdle
    /\ DecodeIdle
    /\ RecordsIdle
    /\ BuilderIdle
    /\ AccelIdle
    /\ ConvertIdle
    /\ DownloadStart

SpecDownload == InitDownload /\ [][NextDownload]_vars

\* ---------------------------------------------------------------------- C28
\* In every state of a _download call: at most retries + 1 attempts; the
\* sleeps so far are 1, 2, 4, ..., one after every failed attempt but the
\* last; returned data is non-empty and below the cap; RuntimeError only
\* after retries + 1 attempts.
C28_State ==
    /\ dl.attempts <= dlCfg.retries + 1
    /\ dl.sleeps = [i \in 1..Len(dl.sleeps) |-> Pow2(i - 1)]
    /\ dl.result = "none" => Len(dl.sleeps) = dl.attempts
    /\ dl.result # "none" => Len(dl.sleeps) = dl.attempts - 1
    /\ dl.result = "data" =>
           /\ 0 < dl.size
           /\ dl.size < dlCfg.max_pdf_bytes
           /\ dlPc \in {"returned", "iter", "done"}
    /\ dl.result = "RuntimeError" =>
           /\ dl.attempts = dlCfg.retries + 1
           /\ dlPc \in {"raised", "iter", "done"}

\* In every step: no attempt follows a successful one, and after the
\* RuntimeError iter_files yields nothing for the url and goes on to the
\* next one.
C28_Step ==
    /\ dl'.attempts > dl.attempts => (dl.result = "none" /\ urlIdx' = urlIdx)
    /\ dlPc = "raised" => (yielded' = yielded /\ dlPc' = "iter")
    /\ (dlPc = "iter" /\ urlIdx < dlCfg.urls) =>
           (dlPc' = "attempt" /\ urlIdx' = urlIdx + 1)

\* C28: _download makes at most retries + 1 attempts per URL, returns on
\* the first successful one, sleeps 2^attempt seconds between consecutive
\* failed attempts and never after the last, treats an empty body or one
\* that reaches max_pdf_bytes as a failed attempt, and raises RuntimeError
\* after the final failure; iter_files then skips that URL and continues
\* with the next one.
C28_RetryBackoff == [](C28_State) /\ [][C28_Step]_vars

\* iter_files is over: the first url yielded nothing, the second was
\* downloaded on its second attempt, after one sleep of 1 s, and yielded.
C28_Witness ==
    /\ dlPc = "done"
    /\ dlCfg.retries = 2
    /\ urlIdx = 2
    /\ yielded = <<2>>
    /\ dl.result = "data"
    /\ dl.attempts = 2
    /\ dl.sleeps = <<1>>

====
